---- MODULE Spec2Model ----
(***************************************************************************)
(* The search pipeline of the WhoKnows web application:                    *)
(*   handlers/search.go        SearchPageHandler, APISearchHandler,        *)
(*                             runSearch, queryLocal, loadExternalBestEffort*)
(*   internal/db/external.go   ExternalExists, InsertExternal, GetExternal *)
(*   internal/scraper/wikipedia.go  WikipediaSearch                        *)
(*   migrations/0001, 0002     the pages and external_results tables       *)
(*                                                                         *)
(* Text is a sequence of one-character strings, so that trimming, case     *)
(* folding and containment are computed rather than assumed.               *)
(***************************************************************************)
EXTENDS Integers, Sequences, FiniteSets, TLC

\* ------------------------------------------------------------------ bounds
\* Number of rows of the pages table.
NPages == 58
\* Number of requests served in one behaviour.
MaxRequests == 2
\* Number of direct calls of the store functions in one behaviour.
MaxStoreCalls == 3

\* ------------------------------------------------------- program constants
pageLimit == 50
apiLimit == 10
snippetLen == 200
\* The limit loadExternalBestEffort passes to WikipediaSearch.
scrapeLimit == 10
\* WikipediaSearch's clamp: default when limit <= 0, and the upper end.
wikiDefaultLimit == 10
wikiMaxLimit == 50
StatusOK == 200
StatusUnauthorized == 401
StatusInternalServerError == 500

\* A NULL column value; a present value v is <<v>>.
NULL == <<>>

Min(a, b) == IF a < b THEN a ELSE b

\* ------------------------------------------------------------------- text
Whitespace == {" ", "\t"}

\* strings.ToLower on one character (the letters the model uses).
ToLowerChar(c) ==
    CASE c = "A" -> "a"
      [] c = "B" -> "b"
      [] c = "X" -> "x"
      [] OTHER -> c

ToLower(s) == [i \in 1..Len(s) |-> ToLowerChar(s[i])]

RECURSIVE TrimLeft(_)
TrimLeft(s) ==
    IF s # <<>> /\ Head(s) \in Whitespace THEN TrimLeft(Tail(s)) ELSE s

RECURSIVE TrimRight(_)
TrimRight(s) ==
    IF s # <<>> /\ s[Len(s)] \in Whitespace
    THEN TrimRight(SubSeq(s, 1, Len(s) - 1))
    ELSE s

\* Faulty variant of TrimSpace: the query not trimmed.
TrimSpaceNone(s) == s

\* strings.TrimSpace: leading and trailing white space removed.
TrimSpace(s) == TrimRight(TrimLeft(s))

\* SQL LEFT(text, n).
Left(s, n) == SubSeq(s, 1, Min(n, Len(s)))

\* SQL LIKE on already case-folded text: % matches any run of characters,
\* _ matches exactly one character, any other character matches itself.
RECURSIVE LikeMatch(_, _)
LikeMatch(text, pat) ==
    IF pat = <<>> THEN text = <<>>
    ELSE IF Head(pat) = "%"
         THEN \E k \in 0..Len(text) :
                  LikeMatch(SubSeq(text, k + 1, Len(text)), Tail(pat))
    ELSE IF text = <<>> THEN FALSE
    ELSE IF Head(pat) = "_" \/ Head(pat) = Head(text)
         THEN LikeMatch(Tail(text), Tail(pat))
    ELSE FALSE

\* text ILIKE pat: LIKE after case folding both sides.
ILike(text, pat) == LikeMatch(ToLower(text), ToLower(pat))

\* Decimal digits of a natural number, as text.
DigitChar(d) == <<"0", "1", "2", "3", "4", "5", "6", "7", "8", "9">>[d + 1]

RECURSIVE Digits(_)
Digits(n) ==
    IF n < 10 THEN <<DigitChar(n)>>
    ELSE Digits(n \div 10) \o <<DigitChar(n % 10)>>

\* The words of a text under the 'simple' text search configuration:
\* maximal runs of non-blank characters, case folded.
RECURSIVE Tokens(_)
Tokens(s) ==
    LET t == TrimLeft(s) IN
    IF t = <<>> THEN <<>>
    ELSE LET ends == {k \in 1..Len(t) : t[k] \in Whitespace}
             n == IF ends = {} THEN Len(t)
                  ELSE (CHOOSE k \in ends : \A j \in ends : k <= j) - 1
         IN <<ToLower(SubSeq(t, 1, n))>> \o Tokens(SubSeq(t, n + 1, Len(t)))

Range(f) == {f[i] : i \in DOMAIN f}

\* ------------------------------------------------------------ pages table
\* The rows of pages (migrations/0001): id, title and url unique, language
\* in {en, da}, last_updated nullable; content_tsv (migrations/0003) is
\* to_tsvector('simple', title || ' ' || content), kept by the trigger.
\* The search pipeline only reads them.
PageLanguage(i) == IF i % 9 = 0 THEN "da" ELSE "en"

PageContent(i) ==
    IF i % 13 = 0 THEN <<"A", "x">> ELSE <<"a", " ", "b">>

PageLastUpdated(i) == IF i % 4 = 0 THEN NULL ELSE <<i % 3>>

Pages ==
    {[id |-> i,
      title |-> <<"P">> \o Digits(i),
      url |-> <<"/">> \o Digits(i),
      language |-> PageLanguage(i),
      last_updated |-> PageLastUpdated(i),
      content |-> PageContent(i),
      content_tsv |-> Tokens(<<"P">> \o Digits(i) \o <<" ">> \o PageContent(i))]
        : i \in 1..NPages}

\* ----------------------------------------------------- local query engine
\* SearchResult (handlers/search.go): the row shape of both paths.
ToSearchResult(p) ==
    [ID |-> p.id, Title |-> p.title, URL |-> p.url, Language |-> p.language,
     Description |-> Left(p.content, snippetLen)]

\* ORDER BY key DESC, id DESC: the rows of S, largest key first, ties by
\* descending id.  key maps each row of S to an integer.
RowBefore(p, r, key) ==
    IF key[p] # key[r] THEN key[p] > key[r] ELSE p.id > r.id

OrderRows(S, key) ==
    LET placed == {<<1 + Cardinality({y \in S : RowBefore(y, x, key)}), x>> : x \in S}
    IN [i \in 1..Cardinality(S) |-> (CHOOSE pr \in placed : pr[1] = i)[2]]

\* LIMIT limit, each row scanned into a SearchResult.
LimitRows(ordered, limit) ==
    [i \in 1..Min(limit, Len(ordered)) |-> ToSearchResult(ordered[i])]

\* last_updated DESC NULLS LAST as a key: NULL sorts below every timestamp.
RecencyKey(p) == IF p.last_updated = NULL THEN 0 - 1 ELSE p.last_updated[1]

\* queryILIKE: substring search, ORDER BY last_updated DESC NULLS LAST,
\* id DESC LIMIT limit.
queryILIKE(q, lang, limit) ==
    LET pat == <<"%">> \o q \o <<"%">>
        rows == {p \in Pages : /\ p.language = lang
                               /\ \/ ILike(p.title, pat)
                                  \/ ILike(p.content, pat)}
    IN LimitRows(OrderRows(rows, [p \in rows |-> RecencyKey(p)]), limit)

\* content_tsv @@ plainto_tsquery('simple', q): every word of q is a word of
\* the document; a query without words matches nothing.
FtsMatch(p, q) ==
    /\ Tokens(q) # <<>>
    /\ Range(Tokens(q)) \subseteq Range(p.content_tsv)

\* ts_rank stands for the number of document words that are query words.
FtsRank(p, q) ==
    Cardinality({k \in DOMAIN p.content_tsv : p.content_tsv[k] \in Range(Tokens(q))})

\* queryFTS: ORDER BY ts_rank DESC, id DESC LIMIT limit.
queryFTS(q, lang, limit) ==
    LET rows == {p \in Pages : p.language = lang /\ FtsMatch(p, q)}
    IN LimitRows(OrderRows(rows, [p \in rows |-> FtsRank(p, q)]), limit)

\* ---------------------------------------------------------------- inputs
\* Request inputs: the q and language parameters and the path; authed says
\* whether the session cookie carries a user_id.
QueryInputs == { <<>>, <<" ">>, <<"a">>, <<" ", "b", "\t">> }
LangInputs == {"", "en", "da"}
Paths == {"page", "api"}

\* Only the API handler looks at the session before it searches.
Sessions(path) == IF path = "api" THEN BOOLEAN ELSE {FALSE}

\* Faulty variant of getLanguage: no default.
getLanguageNoDefault(langParam) == langParam

\* getLanguage: the language parameter, "en" when absent or empty.
getLanguage(langParam) == IF langParam = "" THEN "en" ELSE langParam

\* The limit and includeExternal arguments each handler passes to runSearch.
HandlerLimit(path) == IF path = "page" THEN pageLimit ELSE apiLimit

\* Faulty variant of IncludeExternal: the API handler asking for enrichment too.
IncludeExternalAlways(path) == TRUE

\* includeExternal: true from the page handler, false from the API handler.
IncludeExternal(path) == path = "page"

\* The two local queries, evaluated once for every argument triple a request
\* of the model submits (the pages table does not change).
\* Queries of direct calls of queryLocal: a word, a part of a word (no
\* full-text match, substring matches), a rare word, two words, and a
\* character that LIKE reads as a wildcard.
LocalQueries == { <<"a">>, <<"P">>, <<"x">>, <<"a", " ", "x">>, <<"_">> }
LocalLangs == {"en", "da"}

LocalArgs ==
    {<<TrimSpace(q), getLanguage(l), HandlerLimit(p)>> :
        q \in QueryInputs, l \in LangInputs, p \in Paths}
    \cup {<<q, l, HandlerLimit(p)>> :
             q \in LocalQueries, l \in LocalLangs, p \in Paths}
ILIKERows == {<<k, queryILIKE(k[1], k[2], k[3])>> : k \in LocalArgs}
FTSRows == {<<k, queryFTS(k[1], k[2], k[3])>> : k \in LocalArgs}
RowsFor(table, q, lang, limit) ==
    (CHOOSE e \in table : e[1] = <<q, lang, limit>>)[2]

\* Faulty variant of queryLocal: a failed full-text query returned as the
\* error, without the substring query.
queryLocalNoFallback(fts, ftsOut, ilikeOut, q, lang, limit) ==
    IF fts
    THEN IF ftsOut = "ok"
         THEN [res |-> RowsFor(FTSRows, q, lang, limit), err |-> FALSE,
               ran |-> <<"fts">>]
         ELSE [res |-> <<>>, err |-> TRUE, ran |-> <<"fts">>]
    ELSE IF ilikeOut = "ok"
         THEN [res |-> RowsFor(ILIKERows, q, lang, limit), err |-> FALSE,
               ran |-> <<"ilike">>]
         ELSE [res |-> <<>>, err |-> TRUE, ran |-> <<"ilike">>]

\* queryLocal: full-text search first when the flag is on, the substring
\* search when the flag is off or the full-text query failed.  ftsOut and
\* ilikeOut are the outcomes of the two database queries ("ok", "err",
\* "timeout"); ran lists the queries issued.
queryLocal(fts, ftsOut, ilikeOut, q, lang, limit) ==
    IF fts /\ ftsOut = "ok"
    THEN [res |-> RowsFor(FTSRows, q, lang, limit), err |-> FALSE,
          ran |-> <<"fts">>]
    ELSE LET ran == IF fts THEN <<"fts", "ilike">> ELSE <<"ilike">> IN
         IF ilikeOut = "ok"
         THEN [res |-> RowsFor(ILIKERows, q, lang, limit), err |-> FALSE,
               ran |-> ran]
         ELSE [res |-> <<>>, err |-> TRUE, ran |-> ran]

\* ------------------------------------------------- external_results table
\* A row of external_results (migrations/0002): query, language, title, url,
\* snippet, with UNIQUE (query, language, url); the position in the sequence
\* stands for the serial id.
SameKey(row, query, language, url) ==
    row.query = query /\ row.language = language /\ row.url = url

\* Faulty variant of ExternalExists: the query compared without regard to
\* case.
ExternalExistsNoCase(cache, query, language, failed) ==
    IF failed THEN FALSE
    ELSE Cardinality({i \in DOMAIN cache :
                         /\ ToLower(cache[i].query) = ToLower(query)
                         /\ cache[i].language = language}) > 0

\* ExternalExists: SELECT COUNT(*) ... WHERE query = ? AND language = ?, then
\* count > 0; false when the query fails.
ExternalExists(cache, query, language, failed) ==
    IF failed THEN FALSE
    ELSE Cardinality({i \in DOMAIN cache :
                         cache[i].query = query /\ cache[i].language = language}) > 0

\* Faulty variant of InsertOrIgnore: the table without its UNIQUE constraint.
InsertNoConstraint(cache, query, lang, item) ==
    [cache |-> Append(cache, [query |-> query, language |-> lang,
                              title |-> item.Title, url |-> item.URL,
                              snippet |-> item.Snippet]),
     err |-> FALSE]

\* Faulty variant of InsertOrIgnore: a plain INSERT, which the UNIQUE constraint
\* fails on a cached triple.
InsertOrFail(cache, query, lang, item) ==
    IF \E i \in DOMAIN cache : SameKey(cache[i], query, lang, item.URL)
    THEN [cache |-> cache, err |-> TRUE]
    ELSE [cache |-> Append(cache, [query |-> query, language |-> lang,
                                   title |-> item.Title, url |-> item.URL,
                                   snippet |-> item.Snippet]),
          err |-> FALSE]

\* One INSERT OR IGNORE: a row violating UNIQUE (query, language, url) is
\* skipped without an error, any other row is appended.
InsertOrIgnore(cache, query, lang, item) ==
    IF \E i \in DOMAIN cache : SameKey(cache[i], query, lang, item.URL)
    THEN [cache |-> cache, err |-> FALSE]
    ELSE [cache |-> Append(cache, [query |-> query, language |-> lang,
                                   title |-> item.Title, url |-> item.URL,
                                   snippet |-> item.Snippet]),
          err |-> FALSE]

\* InsertExternal's loop from item k on, inside the transaction: it stops at
\* the first statement that fails.  failAt is the statement the database
\* fails (0: none).
RECURSIVE ExecInserts(_, _, _, _, _, _)
ExecInserts(cache, query, lang, items, k, failAt) ==
    IF k > Len(items) THEN [cache |-> cache, err |-> FALSE]
    ELSE IF k = failAt THEN [cache |-> cache, err |-> TRUE]
    ELSE LET one == InsertOrIgnore(cache, query, lang, items[k]) IN
         IF one.err THEN one
         ELSE ExecInserts(one.cache, query, lang, items, k + 1, failAt)

\* Faulty variant of InsertExternal: the rows executed before a failing
\* statement stay in the table.
InsertExternalNoRollback(cache, query, lang, items, failAt) ==
    IF Len(items) = 0 THEN [cache |-> cache, err |-> FALSE]
    ELSE LET tx == ExecInserts(cache, query, lang, items, 1, failAt) IN
         IF tx.err THEN [cache |-> tx.cache, err |-> TRUE]
         ELSE IF failAt = Len(items) + 1 THEN [cache |-> cache, err |-> TRUE]
         ELSE [cache |-> tx.cache, err |-> FALSE]

\* InsertExternal: nothing to do for an empty batch; otherwise one
\* transaction, rolled back when a statement fails (failAt in 1..Len(items);
\* a failing Begin or Prepare leaves the same state as failAt = 1) and lost
\* when Commit fails (failAt = Len(items) + 1).
InsertExternal(cache, query, lang, items, failAt) ==
    IF Len(items) = 0 THEN [cache |-> cache, err |-> FALSE]
    ELSE LET tx == ExecInserts(cache, query, lang, items, 1, failAt) IN
         IF tx.err \/ failAt = Len(items) + 1
         THEN [cache |-> cache, err |-> TRUE]
         ELSE [cache |-> tx.cache, err |-> FALSE]

\* Faulty variant of GetExternal: the language left out of the WHERE clause.
GetExternalAnyLanguage(cache, query, lang, failed) ==
    IF failed THEN [rows |-> <<>>, err |-> TRUE]
    ELSE LET hit(row) == row.query = query
             rows == SelectSeq(cache, hit)
         IN [rows |-> [i \in 1..Len(rows) |->
                          [Title |-> rows[i].title, URL |-> rows[i].url,
                           Snippet |-> rows[i].snippet]],
             err |-> FALSE]

\* GetExternal: SELECT title, url, snippet ... WHERE query = ? AND language = ?
\* in storage order; nil and an error when the query fails.
GetExternal(cache, query, lang, failed) ==
    IF failed THEN [rows |-> <<>>, err |-> TRUE]
    ELSE LET hit(row) == row.query = query /\ row.language = lang
             rows == SelectSeq(cache, hit)
         IN [rows |-> [i \in 1..Len(rows) |->
                          [Title |-> rows[i].title, URL |-> rows[i].url,
                           Snippet |-> rows[i].snippet]],
             err |-> FALSE]

\* ------------------------------------------------------------- Wikipedia
\* Faulty variant of ClampLimit: no upper clamp.
ClampLimitNoUpper(limit) == IF limit <= 0 THEN wikiDefaultLimit ELSE limit

\* WikipediaSearch's clamp of limit.
ClampLimit(limit) ==
    IF limit <= 0 THEN wikiDefaultLimit
    ELSE IF limit > wikiMaxLimit THEN wikiMaxLimit
    ELSE limit

\* A hit of the upstream search API, mapped to a ScrapedResult.
Scraped(title, pageid) ==
    [Title |-> title, URL |-> <<"https://en.wikipedia.org/?curid=">> \o Digits(pageid),
     Snippet |-> <<"s">> \o Digits(pageid)]

\* The result lists the upstream may answer with (it ranks them itself).
UpstreamAnswers ==
    { <<>>,
      <<Scraped(<<"W", "1">>, 1), Scraped(<<"W", "2">>, 2), Scraped(<<"W", "3">>, 3)>>,
      <<Scraped(<<"W", "1", "b">>, 1), Scraped(<<"W", "4">>, 4)>> }

\* WikipediaSearch(query, limit) without a transport or status error: the
\* upstream is asked for ClampLimit(limit) results and answers with no more.
WikipediaSearch(query, limit) ==
    {a \in UpstreamAnswers : Len(a) <= ClampLimit(limit)}

\* ------------------------------------------------------------------ state
\* Request slots: the first serves one request after another, both together
\* serve two requests at a time.
SeqReqs == {1}
Reqs == {1, 2}

VARIABLES
    dbConfigured,      \* handlers.db # nil
    useFTSSearch,      \* atomic.Bool
    externalEnabled,   \* atomic.Bool
    external_results,  \* the cache table, in insertion order
    started,           \* requests received so far
    req,               \* per request: its position and local variables
    call,              \* the last direct call of a store function, its result
    users,             \* the users table
    jar,               \* the session cookie the client holds
    schema_migrations, \* the ledger table of the migration runner
    effects,           \* per migration file, its statements in effect
    advisoryLock,      \* the session holding the advisory lock, or 0
    runner             \* per process calling RunMigrations: its position

\* The state only the account handlers change.
authVars == <<users, jar>>

\* The state only RunMigrations changes.
migVars == <<schema_migrations, effects, advisoryLock, runner>>

sideVars == <<authVars, migVars>>

vars == <<dbConfigured, useFTSSearch, externalEnabled, external_results,
          started, req, call, sideVars>>

\* A request slot before a request arrives.  The fields up to status are
\* the handler's and runSearch's variables; calls lists the database and
\* upstream calls the request made, incTotal and incWithResult whether it
\* incremented metrics.SearchTotal and metrics.SearchWithResult (counters the
\* program never reads), flagSeen says whether enrichment was
\* enabled ("on"), disabled ("off") or toggled ("mixed") while it ran, and
\* insertFault whether the database failed a statement of its InsertExternal,
\* existsFault whether it failed the query of the ExternalExists the request
\* has just called (until its next step).  body is
\* the content type written and the error message, if the body is one.
NoRequest ==
    [pc |-> "idle", path |-> "", q |-> <<>>, langParam |-> "", authed |-> FALSE,
     tq |-> <<>>, lang |-> "", limit |-> 0, includeExternal |-> FALSE,
     local |-> <<>>, localErr |-> FALSE, expired |-> FALSE,
     sawExternal |-> FALSE, exists |-> FALSE, scraped |-> <<>>,
     scrapeErr |-> FALSE, insertErr |-> FALSE, ext |-> <<>>, getErr |-> FALSE,
     results |-> <<>>, status |-> 0, calls |-> <<>>,
     incTotal |-> FALSE, incWithResult |-> FALSE,
     flagSeen |-> "", insertFault |-> FALSE, existsFault |-> FALSE,
     body |-> [type |-> "", error |-> ""]]

\* No store function called directly yet; n counts the direct calls.
NoCall == [op |-> "none", n |-> 0]

\* The values of a gorilla session: a map with at most the key user_id.
NoValues == [k \in {} |-> 0]

\* The client before the server has set a session cookie.
NoCookie == [set |-> FALSE, values |-> NoValues]

\* The migration files of migrations/*.sql in sorted order, by number, and
\* the processes that call RunMigrations.
NFiles == 3
MaxRuns == 2
Files == 1..NFiles
Runners == {1, 2}

\* The database before the first run: no ledger table.
NoLedger == [exists |-> FALSE, versions |-> {}]

\* A process that has not called RunMigrations.  locked, idx, stmt, tx and
\* expired are the call's variables (tx: the statements executed in the open
\* transaction); err is what the call returns; runs counts the calls; ran
\* lists the files the call executed a statement of, unlocks counts its
\* unlock statements, seen is the ledger as it was when it took the lock.
NoRun ==
    [pc |-> "idle", locked |-> FALSE, idx |-> 0, stmt |-> 0, tx |-> {},
     expired |-> FALSE, err |-> "", runs |-> 0, ran |-> <<>>, unlocks |-> 0,
     seen |-> {}]

\* The external rows as SearchResults: ID 0 and the request's language.
ExternalResults(ext, lang) ==
    [i \in 1..Len(ext) |->
        [ID |-> 0, Title |-> ext[i].Title, URL |-> ext[i].URL,
         Language |-> lang, Description |-> ext[i].Snippet]]

\* Faulty variant of Cap: the final cap left out.
CapNone(list, limit) == list

\* runSearch's final cap.
Cap(list, limit) == IF Len(list) > limit THEN SubSeq(list, 1, limit) ELSE list

\* Faulty variant of Merge: the external rows put first.
MergeExternalFirst(local, ext, limit) == Cap(ext \o local, limit)

\* runSearch's merge: the local rows, then the external rows, then the cap.
Merge(local, ext, limit) == Cap(local \o ext, limit)

\* Faulty variant of EnrichmentWanted: the flag not consulted.
EnrichmentWantedAnyFlag(includeExternal, enabled) == includeExternal

\* runSearch's test for the enrichment phase.
EnrichmentWanted(includeExternal, enabled) == includeExternal /\ enabled

\* Faulty variant of SearchStatus: a failed query surfacing as a server error.
SearchStatusFailing(rec) ==
    IF rec.localErr \/ rec.getErr THEN StatusInternalServerError ELSE StatusOK

\* The status the handler answers with once runSearch has returned to it:
\* renderTemplate writes the page and writeJSON is given StatusOK, whatever
\* happened inside runSearch (rec is the request's record).
SearchStatus(rec) == StatusOK

\* The body a handler writes: the page handler renders the template, or
\* writes the message with http.Error; the API handler writes JSON, an
\* object with the key "error" when it reports one.
ResponseBody(path, error) ==
    [type |-> IF path = "api" THEN "json"
              ELSE IF error = "" THEN "html" ELSE "text",
     error |-> error]

\* The handler's end after runSearch returned results: the hit-rate metric
\* and the response.
Respond(r, rec, results) ==
    req' = [req EXCEPT ![r] = [rec EXCEPT !.pc = "done", !.results = results,
                                          !.incWithResult = Len(results) > 0,
                                          !.status = SearchStatus(rec),
                                          !.existsFault = FALSE,
                                          !.body = ResponseBody(rec.path, "")]]

Init ==
    /\ dbConfigured \in BOOLEAN
    /\ useFTSSearch = FALSE
    /\ externalEnabled = TRUE
    /\ external_results = <<>>
    /\ started = 0
    /\ req = [r \in Reqs |-> NoRequest]
    /\ call = NoCall
    /\ users = {}
    /\ jar = NoCookie
    /\ schema_migrations = NoLedger
    /\ effects = [f \in Files |-> [stmts |-> {}, commits |-> 0]]
    /\ advisoryLock = 0
    /\ runner = [p \in Runners |-> NoRun]

\* EnableFTSSearch(on)
EnableFTSSearch(on) ==
    /\ useFTSSearch' = on
    /\ UNCHANGED <<sideVars, dbConfigured, externalEnabled, external_results,
                   started, req, call>>

\* EnableExternalSearch(on); flagSeen of the requests in flight follows.
EnableExternalSearch(on) ==
    /\ externalEnabled' = on
    /\ req' = [r \in Reqs |->
                 IF req[r].pc \in {"idle", "done"}
                    \/ req[r].flagSeen = (IF on THEN "on" ELSE "off")
                 THEN req[r]
                 ELSE [req[r] EXCEPT !.flagSeen = "mixed"]]
    /\ UNCHANGED <<sideVars, dbConfigured, useFTSSearch, external_results,
                   started, call>>

\* Faulty variant of Receive: the API handler without its session check.
ReceiveNoAuthCheck(r, path, q, langParam, authed) ==
    /\ req[r].pc \in {"idle", "done"}
    /\ started < MaxRequests
    /\ started' = started + 1
    /\ UNCHANGED <<sideVars, dbConfigured, useFTSSearch, externalEnabled, external_results,
                   call>>
    /\ LET rec == [NoRequest EXCEPT !.path = path, !.q = q,
                                    !.langParam = langParam, !.authed = authed,
                                    !.flagSeen = IF externalEnabled THEN "on"
                                                 ELSE "off"]
       IN
       IF ~dbConfigured
       THEN req' = [req EXCEPT ![r] = [rec EXCEPT !.pc = "done",
                                   !.status = StatusInternalServerError,
                                   !.body = ResponseBody(path,
                                                "database not configured")]]
       ELSE LET run == [rec EXCEPT !.tq = TrimSpace(q),
                                   !.lang = getLanguage(langParam),
                                   !.limit = HandlerLimit(path),
                                   !.includeExternal = IncludeExternal(path)]
            IN IF run.tq = <<>>
               THEN Respond(r, run, <<>>)
               ELSE req' = [req EXCEPT ![r] = [run EXCEPT !.pc = "local",
                                                          !.incTotal = TRUE]]

\* SearchPageHandler / APISearchHandler up to runSearch's first database
\* call: the nil check, the session check of the API, the parameters, the
\* trim and the empty-query return.
Receive(r, path, q, langParam, authed) ==
    /\ req[r].pc \in {"idle", "done"}
    /\ started < MaxRequests
    /\ started' = started + 1
    /\ UNCHANGED <<sideVars, dbConfigured, useFTSSearch, externalEnabled, external_results,
                   call>>
    /\ LET rec == [NoRequest EXCEPT !.path = path, !.q = q,
                                    !.langParam = langParam, !.authed = authed,
                                    !.flagSeen = IF externalEnabled THEN "on"
                                                 ELSE "off"]
       IN
       IF ~dbConfigured
       THEN req' = [req EXCEPT ![r] = [rec EXCEPT !.pc = "done",
                                   !.status = StatusInternalServerError,
                                   !.body = ResponseBody(path,
                                                "database not configured")]]
       ELSE IF path = "api" /\ ~authed
       THEN req' = [req EXCEPT ![r] = [rec EXCEPT !.pc = "done",
                                   !.status = StatusUnauthorized,
                                   !.body = ResponseBody(path, "unauthorized")]]
       ELSE LET run == [rec EXCEPT !.tq = TrimSpace(q),
                                   !.lang = getLanguage(langParam),
                                   !.limit = HandlerLimit(path),
                                   !.includeExternal = IncludeExternal(path)]
            IN IF run.tq = <<>>
               THEN Respond(r, run, <<>>)
               ELSE req' = [req EXCEPT ![r] = [run EXCEPT !.pc = "local",
                                                          !.incTotal = TRUE]]

\* runSearch: queryLocal under the request-scoped timeout; on an error the
\* local list is empty.  A timeout cancels the context, so every query still
\* to run fails as well.
LocalPhase(r, ftsOut, ilikeOut) ==
    /\ req[r].pc = "local"
    /\ ftsOut \in (IF useFTSSearch THEN {"ok", "err", "timeout"} ELSE {"ok"})
    /\ ilikeOut \in (IF ftsOut = "timeout" THEN {"timeout"}
                     ELSE IF useFTSSearch /\ ftsOut = "ok" THEN {"ok"}
                     ELSE {"ok", "err", "timeout"})
    /\ LET out == queryLocal(useFTSSearch, ftsOut, ilikeOut,
                             req[r].tq, req[r].lang, req[r].limit)
       IN req' = [req EXCEPT ![r].pc = "enrich",
                             ![r].local = IF out.err THEN <<>> ELSE out.res,
                             ![r].localErr = out.err,
                             ![r].expired = "timeout" \in {ftsOut, ilikeOut},
                             ![r].calls = @ \o out.ran]
    /\ UNCHANGED <<sideVars, dbConfigured, useFTSSearch, externalEnabled, external_results, started, call>>

\* Faulty variant of EnrichStep: the scrape on every search, hit or miss.
EnrichStepAlwaysScrape(r, failed, want) ==
    /\ req[r].pc = "enrich"
    /\ UNCHANGED <<sideVars, dbConfigured, useFTSSearch, externalEnabled, external_results, started, call>>
    /\ IF want
       THEN LET found == ExternalExists(external_results, req[r].tq,
                                        req[r].lang, failed)
            IN req' = [req EXCEPT ![r].pc = "scrape",
                                  ![r].sawExternal = TRUE,
                                  ![r].exists = found,
                                  ![r].existsFault = failed,
                                  ![r].calls = Append(@, "exists")]
       ELSE /\ ~failed
            /\ Respond(r, req[r], Merge(req[r].local, <<>>, req[r].limit))

\* runSearch after the local phase.  With want: loadExternalBestEffort's
\* ExternalExists, which sends the request to the scrape on a miss and to the
\* read-back on a hit.  Without: the cap and the response.
EnrichStep(r, failed, want) ==
    /\ req[r].pc = "enrich"
    /\ UNCHANGED <<sideVars, dbConfigured, useFTSSearch, externalEnabled, external_results, started, call>>
    /\ IF want
       THEN LET found == ExternalExists(external_results, req[r].tq,
                                        req[r].lang, failed)
            IN req' = [req EXCEPT ![r].pc = IF found THEN "get" ELSE "scrape",
                                  ![r].sawExternal = TRUE,
                                  ![r].exists = found,
                                  ![r].existsFault = failed,
                                  ![r].calls = Append(@, "exists")]
       ELSE /\ ~failed
            /\ Respond(r, req[r], Merge(req[r].local, <<>>, req[r].limit))

\* Faulty variant of EnrichOrRespond: no enrichment once the request-scoped
\* deadline has passed.
EnrichOrRespondUnlessExpired(r, failed) ==
    EnrichStep(r, failed,
               EnrichmentWanted(req[r].includeExternal, externalEnabled)
                   /\ ~req[r].expired)

\* Faulty variant of EnrichOrRespond: no enrichment after a failed local query.
EnrichOrRespondUnlessLocalFailed(r, failed) ==
    EnrichStep(r, failed,
               EnrichmentWanted(req[r].includeExternal, externalEnabled)
                   /\ ~req[r].localErr)

\* runSearch: if includeExternal && externalEnabled.Load() { ... }
EnrichOrRespond(r, failed) ==
    EnrichStep(r, failed,
               EnrichmentWanted(req[r].includeExternal, externalEnabled))

\* Faulty variant of ScrapeFails: a failed upstream call tried once more.
ScrapeFailsRetry(r) ==
    /\ req[r].pc = "scrape"
    /\ req' = [req EXCEPT ![r].pc = IF req[r].scrapeErr THEN "get" ELSE "scrape",
                          ![r].scrapeErr = TRUE,
                          ![r].existsFault = FALSE,
                          ![r].calls = Append(@, "wiki")]
    /\ UNCHANGED <<sideVars, dbConfigured, useFTSSearch, externalEnabled, external_results, started, call>>

\* loadExternalBestEffort: WikipediaSearch(q, 10) failing.
ScrapeFails(r) ==
    /\ req[r].pc = "scrape"
    /\ req' = [req EXCEPT ![r].pc = "get", ![r].scrapeErr = TRUE,
                          ![r].existsFault = FALSE,
                          ![r].calls = Append(@, "wiki")]
    /\ UNCHANGED <<sideVars, dbConfigured, useFTSSearch, externalEnabled, external_results, started, call>>

\* Faulty variant of Scrape: an empty answer stored as a row without a
\* title, so that the pair counts as cached.
ScrapeCacheEmpty(r, answer) ==
    /\ req[r].pc = "scrape"
    /\ answer \in WikipediaSearch(req[r].tq, scrapeLimit)
    /\ req' = [req EXCEPT ![r].pc = IF Len(answer) > 0 THEN "insert" ELSE "get",
                          ![r].scraped = answer,
                          ![r].existsFault = FALSE,
                          ![r].calls = Append(@, "wiki")]
    /\ external_results' =
           IF Len(answer) > 0 THEN external_results
           ELSE Append(external_results,
                       [query |-> req[r].tq, language |-> req[r].lang,
                        title |-> <<>>, url |-> <<>>, snippet |-> <<>>])
    /\ UNCHANGED <<sideVars, dbConfigured, useFTSSearch, externalEnabled, started, call>>

\* loadExternalBestEffort: WikipediaSearch(q, 10) answering; an empty
\* answer is not stored.
Scrape(r, answer) ==
    /\ req[r].pc = "scrape"
    /\ answer \in WikipediaSearch(req[r].tq, scrapeLimit)
    /\ req' = [req EXCEPT ![r].pc = IF Len(answer) > 0 THEN "insert" ELSE "get",
                          ![r].scraped = answer,
                          ![r].existsFault = FALSE,
                          ![r].calls = Append(@, "wiki")]
    /\ UNCHANGED <<sideVars, dbConfigured, useFTSSearch, externalEnabled, external_results, started, call>>

\* Faulty variant of Insert: the rows stored under the query as submitted.
InsertVerbatim(r, failAt) ==
    /\ req[r].pc = "insert"
    /\ failAt \in 0..(Len(req[r].scraped) + 1)
    /\ LET out == InsertExternal(external_results, req[r].q, req[r].lang,
                                 req[r].scraped, failAt)
       IN /\ external_results' = out.cache
          /\ req' = [req EXCEPT ![r].pc = "get", ![r].insertErr = out.err,
                                ![r].insertFault = failAt # 0,
                                ![r].calls = Append(@, "insert")]
    /\ UNCHANGED <<sideVars, dbConfigured, useFTSSearch, externalEnabled, started, call>>

\* Faulty variant of Insert: a failed insert ends the enrichment, without
\* the read-back.
InsertReturnEarly(r, failAt) ==
    /\ req[r].pc = "insert"
    /\ failAt \in 0..(Len(req[r].scraped) + 1)
    /\ LET out == InsertExternal(external_results, req[r].tq, req[r].lang,
                                 req[r].scraped, failAt)
           rec == [req[r] EXCEPT !.insertErr = out.err,
                                 !.insertFault = failAt # 0,
                                 !.calls = Append(@, "insert")]
       IN /\ external_results' = out.cache
          /\ IF out.err
             THEN Respond(r, rec, Merge(rec.local, <<>>, rec.limit))
             ELSE req' = [req EXCEPT ![r] = [rec EXCEPT !.pc = "get"]]
    /\ UNCHANGED <<sideVars, dbConfigured, useFTSSearch, externalEnabled, started, call>>

\* loadExternalBestEffort: InsertExternal; its error is only logged.
Insert(r, failAt) ==
    /\ req[r].pc = "insert"
    /\ failAt \in 0..(Len(req[r].scraped) + 1)
    /\ LET out == InsertExternal(external_results, req[r].tq, req[r].lang,
                                 req[r].scraped, failAt)
       IN /\ external_results' = out.cache
          /\ req' = [req EXCEPT ![r].pc = "get", ![r].insertErr = out.err,
                                ![r].insertFault = failAt # 0,
                                ![r].calls = Append(@, "insert")]
    /\ UNCHANGED <<sideVars, dbConfigured, useFTSSearch, externalEnabled, started, call>>

\* Faulty variant of GetAndRespond: the flag read a second time before the
\* read-back.
GetAndRespondRereadFlag(r, failed) ==
    /\ req[r].pc = "get"
    /\ IF externalEnabled
       THEN LET got == GetExternal(external_results, req[r].tq, req[r].lang,
                                   failed)
                rec == [req[r] EXCEPT !.ext = got.rows, !.getErr = got.err,
                                      !.calls = Append(@, "get")]
            IN Respond(r, rec,
                       Merge(rec.local, ExternalResults(got.rows, rec.lang),
                             rec.limit))
       ELSE /\ ~failed
            /\ Respond(r, req[r], Merge(req[r].local, <<>>, req[r].limit))
    /\ UNCHANGED <<sideVars, dbConfigured, useFTSSearch, externalEnabled, external_results,
                   started, call>>

\* Faulty variant of GetAndRespond: the scraped rows returned when storing them
\* failed.
GetAndRespondFresh(r, failed) ==
    /\ req[r].pc = "get"
    /\ LET got == GetExternal(external_results, req[r].tq, req[r].lang, failed)
           rows == IF req[r].insertErr THEN req[r].scraped ELSE got.rows
           rec == [req[r] EXCEPT !.ext = rows, !.getErr = got.err,
                                 !.calls = Append(@, "get")]
       IN Respond(r, rec, Merge(rec.local, ExternalResults(rows, rec.lang),
                                rec.limit))
    /\ UNCHANGED <<sideVars, dbConfigured, useFTSSearch, externalEnabled, external_results,
                   started, call>>

\* loadExternalBestEffort: GetExternal (nil on failure), then runSearch's
\* append and cap and the handler's response.
GetAndRespond(r, failed) ==
    /\ req[r].pc = "get"
    /\ LET got == GetExternal(external_results, req[r].tq, req[r].lang, failed)
           rec == [req[r] EXCEPT !.ext = got.rows, !.getErr = got.err,
                                 !.calls = Append(@, "get")]
       IN Respond(r, rec, Merge(rec.local, ExternalResults(got.rows, rec.lang),
                                rec.limit))
    /\ UNCHANGED <<sideVars, dbConfigured, useFTSSearch, externalEnabled, external_results, started, call>>

\* ------------------------------------------- the store functions, alone
\* Arguments of direct calls: queries that differ only in case, two
\* languages, and batches that repeat a url inside one batch and across
\* batches.
StoreQueries == { <<"a">>, <<"A">> }
StoreLangs == {"en", "da"}
StoreBatches ==
    UpstreamAnswers \cup
        { <<Scraped(<<"W", "1">>, 1), Scraped(<<"W", "1", "b">>, 1)>> }

\* db.InsertExternal(database, query, lang, items)
CallInsert(query, lang, items, failAt) ==
    /\ call.n < MaxStoreCalls
    /\ failAt \in 0..(Len(items) + 1)
    /\ LET out == InsertExternal(external_results, query, lang, items, failAt)
       IN /\ external_results' = out.cache
          /\ call' = [op |-> "insert", n |-> call.n + 1, query |-> query,
                      lang |-> lang, items |-> items, fault |-> failAt # 0,
                      failAt |-> failAt, before |-> external_results,
                      err |-> out.err]
    /\ UNCHANGED <<sideVars, dbConfigured, useFTSSearch, externalEnabled, started, req>>

\* db.GetExternal(database, query, lang)
CallGet(query, lang, failed) ==
    /\ call.n < MaxStoreCalls
    /\ LET out == GetExternal(external_results, query, lang, failed)
       IN call' = [op |-> "get", n |-> call.n + 1, query |-> query,
                   lang |-> lang, rows |-> out.rows, err |-> out.err]
    /\ UNCHANGED <<sideVars, dbConfigured, useFTSSearch, externalEnabled, external_results,
                   started, req>>

\* db.ExternalExists(database, query, language)
CallExists(query, lang, failed) ==
    /\ call.n < MaxStoreCalls
    /\ call' = [op |-> "exists", n |-> call.n + 1, query |-> query,
                lang |-> lang, fault |-> failed,
                found |-> ExternalExists(external_results, query, lang, failed)]
    /\ UNCHANGED <<sideVars, dbConfigured, useFTSSearch, externalEnabled, external_results,
                   started, req>>

\* queryLocal(ctx, q, lang, limit) called directly, with the flag as it is.
\* ftsOut and ilikeOut are the outcomes of the two database queries; after a
\* timeout the context is expired and the substring query fails as well.
CallQueryLocal(ftsOut, ilikeOut, q, lang, limit) ==
    /\ call.n < MaxStoreCalls
    /\ ftsOut \in (IF useFTSSearch THEN {"ok", "err", "timeout"} ELSE {"ok"})
    /\ ilikeOut \in (IF ftsOut = "timeout" THEN {"timeout"}
                     ELSE IF useFTSSearch /\ ftsOut = "ok" THEN {"ok"}
                     ELSE {"ok", "err", "timeout"})
    /\ LET out == queryLocal(useFTSSearch, ftsOut, ilikeOut, q, lang, limit)
       IN call' = [op |-> "queryLocal", n |-> call.n + 1,
                   fts |-> useFTSSearch, ftsOut |-> ftsOut,
                   ilikeOut |-> ilikeOut, query |-> q, lang |-> lang,
                   limit |-> limit, res |-> out.res, err |-> out.err,
                   ran |-> out.ran]
    /\ UNCHANGED <<sideVars, dbConfigured, useFTSSearch, externalEnabled, external_results,
                   started, req>>

NextStore ==
    \/ \E q \in StoreQueries, l \in StoreLangs, items \in StoreBatches :
          \E k \in 0..(Len(items) + 1) : CallInsert(q, l, items, k)
    \/ \E q \in StoreQueries, l \in StoreLangs, failed \in BOOLEAN :
          CallGet(q, l, failed)
    \/ \E q \in StoreQueries, l \in StoreLangs, failed \in BOOLEAN :
          CallExists(q, l, failed)

\* Any sequence of calls of the three store functions.
SpecStore == Init /\ [][NextStore]_vars

\* Any sequence of direct calls of queryLocal and toggles of its flag.
NextLocal ==
    \/ \E on \in BOOLEAN : EnableFTSSearch(on)
    \/ \E fo \in {"ok", "err", "timeout"}, io \in {"ok", "err", "timeout"},
          q \in LocalQueries, l \in LocalLangs, p \in Paths :
          CallQueryLocal(fo, io, q, l, HandlerLimit(p))

SpecLocal == Init /\ [][NextLocal]_vars

\* ------------------------------------------------------ the request pipeline
Next ==
    \/ \E on \in BOOLEAN : EnableFTSSearch(on)
    \/ \E on \in BOOLEAN : EnableExternalSearch(on)
    \/ \E r \in SeqReqs, path \in Paths, q \in QueryInputs, l \in LangInputs :
          \E authed \in Sessions(path) : Receive(r, path, q, l, authed)
    \/ \E r \in SeqReqs, f \in {"ok", "err", "timeout"},
          i \in {"ok", "err", "timeout"} : LocalPhase(r, f, i)
    \/ \E r \in SeqReqs, failed \in BOOLEAN : EnrichOrRespond(r, failed)
    \/ \E r \in SeqReqs : ScrapeFails(r)
    \/ \E r \in SeqReqs, a \in UpstreamAnswers : Scrape(r, a)
    \/ \E r \in SeqReqs, k \in 0..(scrapeLimit + 1) : Insert(r, k)
    \/ \E r \in SeqReqs, failed \in BOOLEAN : GetAndRespond(r, failed)

\* Requests served one after another, with the flags toggled at any time.
Spec == Init /\ [][Next]_vars

\* Two page searches at a time, their steps interleaved.
ConcQueries == { <<"a">>, <<" ", "b", "\t">> }
ConcLangs == {"", "en"}

NextConc ==
    \/ \E r \in Reqs, q \in ConcQueries, l \in ConcLangs :
          Receive(r, "page", q, l, FALSE)
    \/ \E r \in Reqs, i \in {"ok", "err", "timeout"} : LocalPhase(r, "ok", i)
    \/ \E r \in Reqs, failed \in BOOLEAN : EnrichOrRespond(r, failed)
    \/ \E r \in Reqs : ScrapeFails(r)
    \/ \E r \in Reqs, a \in UpstreamAnswers : Scrape(r, a)
    \/ \E r \in Reqs, k \in 0..(scrapeLimit + 1) : Insert(r, k)
    \/ \E r \in Reqs, failed \in BOOLEAN : GetAndRespond(r, failed)

SpecConc == Init /\ [][NextConc]_vars

\* A page search of request 1, then the next page search as request 2.  The
\* first search's ExternalExists answers from the table, so that a miss it
\* reports is a pair without rows.
NextRepeat ==
    \/ \E q \in ConcQueries, l \in ConcLangs :
          /\ req[2].pc = "idle"
          /\ Receive(1, "page", q, l, FALSE)
    \/ \E q \in ConcQueries, l \in ConcLangs :
          /\ req[1].pc = "done"
          /\ req[2].pc = "idle"
          /\ Receive(2, "page", q, l, FALSE)
    \/ \E r \in Reqs, i \in {"ok", "err", "timeout"} : LocalPhase(r, "ok", i)
    \/ EnrichOrRespond(1, FALSE)
    \/ \E failed \in BOOLEAN : EnrichOrRespond(2, failed)
    \/ \E r \in Reqs : ScrapeFails(r)
    \/ \E r \in Reqs, a \in UpstreamAnswers : Scrape(r, a)
    \/ \E r \in Reqs, k \in 0..(scrapeLimit + 1) : Insert(r, k)
    \/ \E r \in Reqs, failed \in BOOLEAN : GetAndRespond(r, failed)

SpecRepeat == Init /\ [][NextRepeat]_vars

\* ------------------------------------------------------------ properties
\* q is empty or consists only of white space.
IsBlank(q) == \A i \in DOMAIN q : q[i] \in Whitespace

\* The calls of the enrichment phase, as logged in calls.
EnrichOps == {"exists", "wiki", "insert", "get"}

\* The request ran runSearch to its end.
Searched(r) == req[r].pc = "done" /\ req[r].status = StatusOK

\* The rows the cache now holds for a request's trimmed query and language,
\* in storage order, as the id-0 results they are returned as.
CachedFor(r) ==
    LET hit(row) == row.query = req[r].tq /\ row.language = req[r].lang
        rows == SelectSeq(external_results, hit)
    IN [i \in 1..Len(rows) |->
           [ID |-> 0, Title |-> rows[i].title, URL |-> rows[i].url,
            Language |-> req[r].lang, Description |-> rows[i].snippet]]

\* No two rows of the cache share (query, language, url).
UniqueRows(cache) ==
    \A i, j \in DOMAIN cache :
        i # j => ~SameKey(cache[i], cache[j].query, cache[j].language, cache[j].url)

\* C1: a search with a non-empty trimmed query returns at most 10 results on
\* the API path and at most 50 on the page path, whatever the local and
\* cached rows and the flags.
C1_CapInvariant ==
    \A r \in Reqs :
        (Searched(r) /\ ~IsBlank(req[r].q)) =>
            Len(req[r].results) <=
                (IF req[r].path = "api" THEN apiLimit ELSE pageLimit)

\* C1 witness: a page search whose local and external rows together exceed
\* the limit, answered with exactly the limit.
C1_Witness ==
    \E r \in Reqs :
        /\ Searched(r) /\ req[r].path = "page"
        /\ Len(req[r].local) < pageLimit
        /\ Len(req[r].local) + Len(req[r].ext) > pageLimit
        /\ Len(req[r].results) = pageLimit

\* C2: on the page path with enrichment enabled the response is the local
\* results in their order, then the cached enrichment rows, cut to the
\* limit; with the limit or more local results no id-0 row is returned.
C2_LocalPriority ==
    \A r \in Reqs :
        (Searched(r) /\ req[r].path = "page" /\ ~IsBlank(req[r].q)
            /\ req[r].flagSeen = "on") =>
            LET local == req[r].local
                ext == req[r].ext
                res == req[r].results
            IN /\ Len(res) = Min(pageLimit, Len(local) + Len(ext))
               /\ \A i \in 1..Len(res) :
                     IF i <= Len(local)
                     THEN res[i] = local[i] /\ res[i].ID # 0
                     ELSE /\ res[i].ID = 0
                          /\ res[i].Title = ext[i - Len(local)].Title
                          /\ res[i].URL = ext[i - Len(local)].URL
                          /\ res[i].Description = ext[i - Len(local)].Snippet
               /\ (Len(local) >= pageLimit =>
                      \A i \in 1..Len(res) : res[i].ID # 0)

\* C2 witness: the local results fill the limit while the cache holds rows
\* for the pair.
C2_Witness ==
    \E r \in Reqs :
        /\ Searched(r) /\ req[r].path = "page" /\ req[r].flagSeen = "on"
        /\ Len(req[r].local) >= pageLimit
        /\ Len(req[r].ext) > 0

C5_EnrichmentOff ==
    /\ [](\A r \in Reqs :
            req[r].flagSeen = "off" =>
                /\ \A i \in DOMAIN req[r].calls : req[r].calls[i] \notin EnrichOps
                /\ \A i \in DOMAIN req[r].results : req[r].results[i].ID # 0)
    /\ [][(/\ ~externalEnabled /\ ~externalEnabled'
           /\ \A r \in Reqs : req[r].pc \notin {"idle", "done"}
                                 => req[r].flagSeen = "off")
            => external_results' = external_results]_vars

\* C5 witness: a repeated page search answered while enrichment is
\* disabled, with rows for its pair in the cache.
C5_Witness ==
    \E r \in Reqs :
        /\ Searched(r) /\ req[r].path = "page" /\ req[r].flagSeen = "off"
        /\ started >= 2
        /\ Len(req[r].results) > 0
        /\ Len(CachedFor(r)) > 0

\* C6: a search whose q is empty or white space returns an empty list
\* without any local query or cache or upstream call, on both paths, and
\* the response is 200.
C6_EmptyQuery ==
    \A r \in Reqs :
        (req[r].pc = "done" /\ IsBlank(req[r].q) /\ dbConfigured
            /\ (req[r].path = "page" \/ req[r].authed)) =>
            /\ req[r].results = <<>>
            /\ req[r].calls = <<>>
            /\ req[r].status = StatusOK

\* C6 witness: a page search for a single blank, answered.
C6_Witness ==
    \E r \in Reqs :
        /\ req[r].pc = "done" /\ req[r].path = "page"
        /\ req[r].q = <<" ">> /\ req[r].status = StatusOK

\* C7: an API search makes no cache or upstream call, whatever the flag,
\* every result it returns is a local page, and none of its steps changes
\* the cache.
C7_ApiNoEnrichment ==
    /\ [](\A r \in Reqs :
            req[r].path = "api" =>
                /\ \A i \in DOMAIN req[r].calls : req[r].calls[i] \notin EnrichOps
                /\ \A i \in DOMAIN req[r].results :
                      \E p \in Pages : p.id = req[r].results[i].ID)
    /\ [][\A r \in Reqs :
            (req'[r].path = "api" /\ req'[r] # req[r])
                => external_results' = external_results]_vars

\* C7 witness: an API search answered with enrichment enabled throughout
\* and rows for its pair in the cache.
C7_Witness ==
    \E r \in Reqs :
        /\ Searched(r) /\ req[r].path = "api" /\ req[r].flagSeen = "on"
        /\ Len(req[r].results) > 0
        /\ Len(CachedFor(r)) > 0

\* C8: with a database configured, a page search ends with 200 whatever
\* fails among the local query, ExternalExists, WikipediaSearch,
\* InsertExternal and GetExternal.
C8_PageAlways200 ==
    \A r \in Reqs :
        (req[r].pc = "done" /\ req[r].path = "page" /\ dbConfigured) =>
            req[r].status = StatusOK

\* C8 witness: a page search answered after the local query, the scrape
\* and the read-back all failed.
C8_Witness ==
    \E r \in Reqs :
        /\ req[r].pc = "done" /\ req[r].path = "page"
        /\ req[r].localErr /\ req[r].scrapeErr /\ req[r].getErr

\* C9 as claimed: when the upstream returned results on a miss and
\* InsertExternal failed, the response still carries those results, as far
\* as the cap leaves room.
C9_FreshResultsReturned ==
    \A r \in Reqs :
        (Searched(r) /\ req[r].path = "page" /\ req[r].insertErr) =>
            \A i \in DOMAIN req[r].scraped :
                Len(req[r].local) + i <= req[r].limit =>
                    \E j \in DOMAIN req[r].results :
                        /\ req[r].results[j].ID = 0
                        /\ req[r].results[j].URL = req[r].scraped[i].URL
                        /\ req[r].results[j].Title = req[r].scraped[i].Title

\* C9 amended: when InsertExternal failed, the id-0 rows of the response are
\* the rows GetExternal read back from the cache (none when it failed), cut
\* to the limit: results that were fetched but not stored are not returned.
C9_OnlyCachedReturned ==
    \A r \in Reqs :
        (Searched(r) /\ req[r].path = "page" /\ req[r].insertErr) =>
            LET cached == IF req[r].getErr THEN <<>> ELSE CachedFor(r)
                n == Len(req[r].local)
            IN /\ Len(req[r].results) = Min(req[r].limit, n + Len(cached))
               /\ \A j \in DOMAIN req[r].results :
                     j > n => req[r].results[j] = cached[j - n]

\* C9 witness: the upstream answered, the insert failed, the read-back
\* succeeded, there was room under the limit, and no id-0 row is returned.
C9_Witness ==
    \E r \in Reqs :
        /\ Searched(r) /\ req[r].path = "page" /\ req[r].insertErr
        /\ Len(req[r].scraped) > 0 /\ ~req[r].getErr
        /\ Len(req[r].local) < req[r].limit
        /\ \A j \in DOMAIN req[r].results : req[r].results[j].ID # 0

\* C10: when the local query fails or times out, a page search with
\* enrichment enabled has an empty local list, still checks and reads the
\* cache, and answers with the cached rows of the pair (those GetExternal
\* returns), cut to the limit.
C10_LocalFailureStillEnriches ==
    \A r \in Reqs :
        (Searched(r) /\ req[r].path = "page" /\ req[r].localErr
            /\ req[r].flagSeen = "on") =>
            /\ req[r].local = <<>>
            /\ \E i \in DOMAIN req[r].calls : req[r].calls[i] = "exists"
            /\ \E i \in DOMAIN req[r].calls : req[r].calls[i] = "get"
            /\ LET cached == IF req[r].getErr THEN <<>> ELSE CachedFor(r)
               IN /\ Len(req[r].results) = Min(pageLimit, Len(cached))
                  /\ \A j \in DOMAIN req[r].results :
                        req[r].results[j] = cached[j]

\* C10 witness: the local query timed out and the response carries rows of
\* the cache.
C10_Witness ==
    \E r \in Reqs :
        /\ Searched(r) /\ req[r].path = "page" /\ req[r].flagSeen = "on"
        /\ req[r].localErr /\ req[r].expired
        /\ Len(req[r].results) > 0
        /\ \A j \in DOMAIN req[r].results : req[r].results[j].ID = 0

HasRows(r) ==
    \E i \in DOMAIN external_results :
        /\ external_results[i].query = req[r].tq
        /\ external_results[i].language = req[r].lang

\* The step in which request r calls ExternalExists.
ChecksCache(r) ==
    req[r].pc = "enrich" /\ req'[r].pc \in {"scrape", "get"}

\* C12 as claimed: once the cache holds a row for a pair, no search whose
\* existence check runs after that goes on to the upstream call and the
\* insert for the pair.
C12_NoScrapeAfterHit ==
    [][\A r \in Reqs :
         (ChecksCache(r) /\ HasRows(r)) => req'[r].pc = "get"]_vars

\* C12 amended: once the cache holds a row for a pair, a search whose
\* existence check runs after that and is not failed by the store finds the
\* pair and makes no upstream call and no insert; no step updates or
\* deletes a row of the cache, so the pair stays cached.
C12_CacheHitPermanent ==
    /\ [][\A r \in Reqs :
            (ChecksCache(r) /\ HasRows(r) /\ ~req'[r].existsFault) =>
                req'[r].exists /\ req'[r].pc = "get"]_vars
    /\ [](\A r \in Reqs :
            req[r].exists =>
                \A i \in DOMAIN req[r].calls :
                    req[r].calls[i] \notin {"wiki", "insert"})
    /\ [][/\ Len(external_results') >= Len(external_results)
          /\ SubSeq(external_results', 1, Len(external_results))
                 = external_results]_vars

\* C12 witness: a request found the pair that another request had stored,
\* and goes to the read-back without an upstream call.
C12_Witness ==
    \E r, o \in Reqs :
        /\ r # o
        /\ req[r].pc = "get" /\ req[r].exists /\ ~req[r].existsFault
        /\ \A i \in DOMAIN req[r].calls : req[r].calls[i] # "wiki"
        /\ req[o].tq = req[r].tq /\ req[o].lang = req[r].lang
        /\ \E i \in DOMAIN req[o].calls : req[o].calls[i] = "insert"
        /\ ~req[o].insertErr
        /\ HasRows(r)

\* C13: within one page search the upstream is called at most once, only
\* right after ExternalExists returned false, and not again after it
\* failed; when it fails the request inserts nothing and returns the rows
\* GetExternal yields for the pair, after the local rows and under the cap.
C13_ScrapeAtMostOnce ==
    \A r \in Reqs :
        /\ Cardinality({i \in DOMAIN req[r].calls : req[r].calls[i] = "wiki"}) <= 1
        /\ \A i \in DOMAIN req[r].calls :
              req[r].calls[i] = "wiki" =>
                  /\ i > 1 /\ req[r].calls[i - 1] = "exists"
                  /\ ~req[r].exists
                  /\ req[r].path = "page"
        /\ req[r].scrapeErr =>
              /\ \A i \in DOMAIN req[r].calls : req[r].calls[i] # "insert"
              /\ req[r].scraped = <<>>
              /\ req[r].pc = "done" =>
                    LET cached == IF req[r].getErr THEN <<>> ELSE CachedFor(r)
                        n == Len(req[r].local)
                    IN /\ req[r].calls[Len(req[r].calls)] = "get"
                       /\ Len(req[r].results)
                              = Min(req[r].limit, n + Len(cached))
                       /\ \A j \in DOMAIN req[r].results :
                             req[r].results[j] =
                                 IF j <= n THEN req[r].local[j]
                                 ELSE cached[j - n]

\* C13 witness: the existence check failed on a cached pair, the upstream
\* call failed, and the rows cached before are returned.
C13_Witness ==
    \E r \in Reqs :
        /\ Searched(r) /\ req[r].scrapeErr /\ ~req[r].getErr
        /\ \E j \in DOMAIN req[r].results : req[r].results[j].ID = 0

\* The place of a call in the order of a request's steps.
StepRank(op) ==
    CASE op = "fts" -> 1
      [] op = "ilike" -> 2
      [] op = "exists" -> 3
      [] op = "wiki" -> 4
      [] op = "insert" -> 5
      [] op = "get" -> 6

\* C14: within one request the local queries end before any enrichment
\* step; the enrichment steps are ExternalExists, then on a miss only the
\* upstream call and InsertExternal, then GetExternal; and GetExternal is
\* called on every run of the enrichment phase.
C14_StepOrder ==
    \A r \in Reqs :
        LET calls == req[r].calls
            has(op) == \E i \in DOMAIN calls : calls[i] = op
        IN /\ \A i, j \in DOMAIN calls :
                 i < j => StepRank(calls[i]) < StepRank(calls[j])
           /\ has("exists") =>
                 /\ StepRank(calls[1]) <= 2
                 /\ req[r].pc \notin {"idle", "local"}
           /\ (has("wiki") \/ has("insert") \/ has("get")) => has("exists")
           /\ has("wiki") => ~req[r].exists
           /\ has("insert") => has("wiki") /\ req[r].scraped # <<>>
           /\ (req[r].pc = "done" /\ has("exists")) => has("get")

\* C14 witness: a request that ran every step: both local queries, a miss,
\* the upstream call, the insert and the read-back.
C14_Witness ==
    \E r \in Reqs :
        /\ req[r].pc = "done"
        /\ req[r].calls = <<"fts", "ilike", "exists", "wiki", "insert", "get">>

\* C15 as claimed: when the request-scoped timeout fired during the local
\* phase, the cache is not checked, the upstream is not called and no
\* enrichment row is appended.
C15_NoEnrichmentAfterDeadline ==
    \A r \in Reqs :
        req[r].expired =>
            /\ \A i \in DOMAIN req[r].calls : req[r].calls[i] \notin EnrichOps
            /\ \A j \in DOMAIN req[r].results : req[r].results[j].ID # 0

\* C15 amended: the enrichment phase does not depend on the request-scoped
\* deadline: after the timeout fired during the local phase, a page search
\* with enrichment enabled still checks the cache, calls the upstream on a
\* miss, reads the cache back and appends its rows.
C15_EnrichmentIgnoresDeadline ==
    \A r \in Reqs :
        (req[r].pc = "done" /\ req[r].expired /\ req[r].path = "page"
            /\ req[r].flagSeen = "on") =>
            LET calls == req[r].calls
                n == Len(calls)
            IN /\ \E i \in DOMAIN calls : calls[i] = "exists"
               /\ ~req[r].exists => \E i \in DOMAIN calls : calls[i] = "wiki"
               /\ calls[n] = "get"
               /\ ~req[r].getErr =>
                     req[r].results = Cap(CachedFor(r), pageLimit)

\* C15 witness: the local phase timed out, the pair was not cached, the
\* upstream was called, and its rows are in the response.
C15_Witness ==
    \E r \in Reqs :
        /\ req[r].pc = "done" /\ req[r].expired /\ req[r].path = "page"
        /\ req[r].flagSeen = "on" /\ ~req[r].exists
        /\ Len(req[r].scraped) > 0 /\ ~req[r].insertErr
        /\ Len(req[r].results) = Len(req[r].scraped)
        /\ \A j \in DOMAIN req[r].results :
              req[r].results[j].ID = 0
              /\ req[r].results[j].URL = req[r].scraped[j].URL

\* C16: the flags may be set at any time; a request takes its full-text
\* decision from the value of useFTSSearch at its one read and its
\* enrichment decision from the value of externalEnabled at its one read,
\* so it runs the whole enrichment phase or none of it; setting a flag
\* changes nothing of a request that has read it.
C16_FlagsReadOnce ==
    /\ [](\A r \in Reqs :
            req[r].pc = "done" =>
                \/ \A i \in DOMAIN req[r].calls :
                      req[r].calls[i] \notin EnrichOps
                \/ /\ req[r].sawExternal
                   /\ \E i \in DOMAIN req[r].calls : req[r].calls[i] = "exists"
                   /\ req[r].calls[Len(req[r].calls)] = "get")
    /\ [][\A r \in Reqs :
            (req[r].pc = "local" /\ req'[r].pc = "enrich") =>
                ((\E i \in DOMAIN req'[r].calls : req'[r].calls[i] = "fts")
                    <=> useFTSSearch)]_vars
    /\ [][\A r \in Reqs :
            (req[r].pc = "enrich" /\ req'[r].pc # "enrich") =>
                (req'[r].sawExternal
                    <=> (req[r].path = "page" /\ externalEnabled))]_vars
    /\ [][(externalEnabled' # externalEnabled \/ useFTSSearch' # useFTSSearch) =>
            /\ external_results' = external_results
            /\ \A r \in Reqs :
                  [req'[r] EXCEPT !.flagSeen = ""]
                      = [req[r] EXCEPT !.flagSeen = ""]]_vars

\* C16 witness: enrichment was switched off while a request was in its
\* enrichment phase, and the request still finished it.
C16_Witness ==
    \E r \in Reqs :
        /\ req[r].pc = "done" /\ req[r].flagSeen = "mixed"
        /\ ~externalEnabled /\ req[r].sawExternal
        /\ req[r].calls[Len(req[r].calls)] = "get"
        /\ \E j \in DOMAIN req[r].results : req[r].results[j].ID = 0

\* C17: an API search without an authenticated session is answered with
\* 401 and a JSON error body, without any local query, cache operation or
\* upstream call and without incrementing a search metric.
C17_ApiUnauthorized ==
    \A r \in Reqs :
        (req[r].pc # "idle" /\ req[r].path = "api" /\ ~req[r].authed
            /\ dbConfigured) =>
            /\ req[r].pc = "done"
            /\ req[r].status = StatusUnauthorized
            /\ req[r].body.type = "json" /\ req[r].body.error # ""
            /\ req[r].calls = <<>>
            /\ req[r].results = <<>>
            /\ ~req[r].incTotal /\ ~req[r].incWithResult

\* C17 witness: an API search for a word that has matches, without a
\* session, answered.
C17_Witness ==
    \E r \in Reqs :
        /\ req[r].pc = "done" /\ req[r].path = "api" /\ ~req[r].authed
        /\ req[r].q = <<"a">>
        /\ req[r].status = StatusUnauthorized

\* C18: a search without a language, or with an empty one, behaves as the
\* same search with language=en on both paths: its local rows are those of
\* the query for "en", its existence check, insert and read-back use the
\* pair (query, "en"), and its response is built from these.
C18_LanguageDefault ==
    /\ [](\A r \in Reqs :
            (req[r].langParam \in {"", "en"}
                /\ req[r].pc \in {"enrich", "scrape", "insert", "get", "done"}
                /\ (req[r].pc = "done" => req[r].status = StatusOK)) =>
                LET hit(row) == row.query = req[r].tq /\ row.language = "en"
                    cached == SelectSeq(external_results, hit)
                    n == Len(req[r].local)
                IN /\ req[r].lang = "en"
                   /\ (~req[r].localErr /\ req[r].tq # <<>>) =>
                         req[r].local =
                             IF req[r].calls[1] = "fts" /\ (Len(req[r].calls) = 1
                                    \/ req[r].calls[2] # "ilike")
                             THEN RowsFor(FTSRows, req[r].tq, "en", req[r].limit)
                             ELSE RowsFor(ILIKERows, req[r].tq, "en", req[r].limit)
                   /\ (req[r].pc = "done" /\ ~req[r].getErr
                         /\ \E i \in DOMAIN req[r].calls : req[r].calls[i] = "get") =>
                         /\ Len(req[r].results)
                                = Min(req[r].limit, n + Len(cached))
                         /\ \A j \in DOMAIN req[r].results :
                               j > n =>
                                 /\ req[r].results[j].Language = "en"
                                 /\ req[r].results[j].URL = cached[j - n].url
                                 /\ req[r].results[j].Title = cached[j - n].title)
    /\ [][\A r \in Reqs :
            (req[r].langParam \in {"", "en"} /\ ChecksCache(r)
                /\ ~req'[r].existsFault) =>
                (req'[r].exists <=>
                    \E i \in DOMAIN external_results :
                        /\ external_results[i].query = req[r].tq
                        /\ external_results[i].language = "en")]_vars
    /\ [][\A r \in Reqs :
            (req[r].langParam \in {"", "en"} /\ req[r].pc = "insert"
                /\ req'[r].pc = "get") =>
                \A i \in DOMAIN external_results' :
                    i > Len(external_results) =>
                        /\ external_results'[i].language = "en"
                        /\ external_results'[i].query = req[r].tq]_vars

\* C18 witness: a page search without a language answered with local rows
\* and rows it stored itself, all of language "en".
C18_Witness ==
    \E r \in Reqs :
        /\ Searched(r) /\ req[r].path = "page" /\ req[r].langParam = ""
        /\ \E i \in DOMAIN req[r].calls : req[r].calls[i] = "insert"
        /\ ~req[r].insertErr
        /\ \E j \in DOMAIN req[r].results : req[r].results[j].ID = 0
        /\ \E j \in DOMAIN req[r].results : req[r].results[j].ID # 0
        /\ \A j \in DOMAIN req[r].results : req[r].results[j].Language = "en"

\* C19: ExternalExists(query, language) is true exactly when the store
\* answers and some cached row has this very query, case included, and this
\* very language; when the store query fails it is false.
C19_ExistsExact ==
    call.op = "exists" =>
        (call.found <=>
            /\ ~call.fault
            /\ \E i \in DOMAIN external_results :
                  /\ external_results[i].query = call.query
                  /\ external_results[i].language = call.lang)

\* C19 witness: the cache holds the query in the other case for the
\* language, the store answers, and the result is false.
C19_Witness ==
    /\ call.op = "exists" /\ ~call.fault /\ ~call.found
    /\ \E i \in DOMAIN external_results :
          /\ external_results[i].query # call.query
          /\ ToLower(external_results[i].query) = ToLower(call.query)
          /\ external_results[i].language = call.lang

\* q without its leading and trailing white space.
Trimmed(q) ==
    LET nb == {i \in DOMAIN q : q[i] \notin Whitespace}
    IN IF nb = {} THEN <<>>
       ELSE SubSeq(q, CHOOSE i \in nb : \A j \in nb : i <= j,
                      CHOOSE i \in nb : \A j \in nb : j <= i)

\* C20 as claimed: the rows a request stores carry the search string as
\* the client submitted it.
C20_VerbatimQuery ==
    \A r \in Reqs :
        ((\E i \in DOMAIN req[r].calls : req[r].calls[i] = "insert")
            /\ ~req[r].insertErr) =>
            \A k \in DOMAIN req[r].scraped :
                \E i \in DOMAIN external_results :
                    SameKey(external_results[i], req[r].q, req[r].lang,
                            req[r].scraped[k].URL)

\* C20 amended: the query of the existence check, of the rows stored and of
\* the read-back is the submitted search string with its leading and
\* trailing white space removed, otherwise unchanged.
C20_TrimmedQuery ==
    /\ [](\A r \in Reqs :
            LET has(op) == \E i \in DOMAIN req[r].calls : req[r].calls[i] = op
                hit(row) == /\ row.query = Trimmed(req[r].q)
                            /\ row.language = req[r].lang
                rows == SelectSeq(external_results, hit)
            IN /\ (has("insert") /\ ~req[r].insertErr) =>
                     \A k \in DOMAIN req[r].scraped :
                         \E i \in DOMAIN external_results :
                             SameKey(external_results[i], Trimmed(req[r].q),
                                     req[r].lang, req[r].scraped[k].URL)
               /\ (req[r].pc = "done" /\ has("get") /\ ~req[r].getErr) =>
                     /\ Len(req[r].ext) = Len(rows)
                     /\ \A j \in DOMAIN rows :
                           /\ req[r].ext[j].URL = rows[j].url
                           /\ req[r].ext[j].Title = rows[j].title)
    /\ [](\A i \in DOMAIN external_results :
            /\ external_results[i].query # <<>>
            /\ external_results[i].query = Trimmed(external_results[i].query))
    /\ [][\A r \in Reqs :
            (ChecksCache(r) /\ ~req'[r].existsFault) =>
                (req'[r].exists <=>
                    \E i \in DOMAIN external_results :
                        /\ external_results[i].query = Trimmed(req[r].q)
                        /\ external_results[i].language = req[r].lang)]_vars

\* C20 witness: a search submitted with white space around the word stored
\* rows and got them back.
C20_Witness ==
    \E r \in Reqs :
        /\ Searched(r) /\ req[r].q # Trimmed(req[r].q)
        /\ \E i \in DOMAIN req[r].calls : req[r].calls[i] = "insert"
        /\ ~req[r].insertErr /\ ~req[r].getErr
        /\ \E j \in DOMAIN req[r].results : req[r].results[j].ID = 0

\* ------------------------------------------------------------------ C21
\* text contains q, letter case ignored.
Contains(text, q) ==
    \E k \in 0..(Len(text) - Len(q)) :
        ToLower(SubSeq(text, k + 1, k + Len(q))) = ToLower(q)

\* The pages of a language whose title or content contains q.
ContainingPages(q, lang) ==
    {p \in Pages : p.language = lang /\ (Contains(p.title, q) \/ Contains(p.content, q))}

\* p comes before r by lastUpdated descending, nulls last, then id descending.
MoreRecent(p, r) ==
    IF p.last_updated = NULL /\ r.last_updated = NULL THEN p.id > r.id
    ELSE IF p.last_updated = NULL THEN FALSE
    ELSE IF r.last_updated = NULL THEN TRUE
    ELSE IF p.last_updated[1] # r.last_updated[1]
         THEN p.last_updated[1] > r.last_updated[1]
    ELSE p.id > r.id

\* res is the first limit pages of S in that order.
IsFirstByRecency(res, S, limit) ==
    /\ Len(res) = Min(limit, Cardinality(S))
    /\ \A i \in DOMAIN res : \E p \in S : res[i] = ToSearchResult(p)
    /\ \A i, j \in DOMAIN res :
          i < j => \E p, r \in S : /\ res[i] = ToSearchResult(p)
                                   /\ res[j] = ToSearchResult(r)
                                   /\ MoreRecent(p, r)
    /\ \A r \in S :
          (\A i \in DOMAIN res : res[i] # ToSearchResult(r)) =>
              \A i \in DOMAIN res :
                  \E p \in S : res[i] = ToSearchResult(p) /\ MoreRecent(p, r)

\* C21: in substring mode the local result list is exactly the first limit
\* pages, ordered by lastUpdated descending with nulls last and then by id
\* descending, among the pages of the requested language whose title or
\* content contains the query case-insensitively.
C21_SubstringFirstByRecency ==
    (call.op = "queryLocal" /\ ~call.fts /\ call.ilikeOut = "ok") =>
        /\ ~call.err
        /\ IsFirstByRecency(call.res, ContainingPages(call.query, call.lang),
                            call.limit)

\* ------------------------------------------------------------------ C22
\* Limits a caller may pass to WikipediaSearch: below, inside and above the
\* accepted range.
WikiLimits == (0 - 2)..(wikiMaxLimit + 3)

\* The srlimit parameter of the upstream request: fmt.Sprintf("%d", limit)
\* after the clamp.
SrLimit(limit) == Digits(ClampLimit(limit))

\* WikipediaSearch(query, limit) called directly; the upstream answers 200
\* with one of the lists it may answer with.
CallWikipediaSearch(query, limit, answer) ==
    /\ call.n < MaxStoreCalls
    /\ answer \in WikipediaSearch(query, limit)
    /\ call' = [op |-> "WikipediaSearch", n |-> call.n + 1, query |-> query,
                limit |-> limit, srlimit |-> SrLimit(limit), results |-> answer]
    /\ UNCHANGED <<sideVars, dbConfigured, useFTSSearch, externalEnabled, external_results,
                   started, req>>

NextWiki ==
    \E q \in StoreQueries, limit \in WikiLimits, answer \in UpstreamAnswers :
        CallWikipediaSearch(q, limit, answer)

\* Any sequence of direct calls of WikipediaSearch.
SpecWiki == Init /\ [][NextWiki]_vars

\* C22: the client asks the upstream for limit results when 1 <= limit <= 50,
\* for 10 when limit <= 0 and for 50 when limit > 50; the number it asks for
\* is always within 1..50.
C22_LimitClamped ==
    call.op = "WikipediaSearch" =>
        /\ (1 <= call.limit /\ call.limit <= 50) => call.srlimit = Digits(call.limit)
        /\ call.limit <= 0 => call.srlimit = Digits(10)
        /\ call.limit > 50 => call.srlimit = Digits(50)
        /\ \E n \in 1..50 : call.srlimit = Digits(n)

\* C22 witness: a call with a limit above the range, answered with results.
C22_Witness ==
    /\ call.op = "WikipediaSearch"
    /\ call.limit > 50
    /\ call.srlimit = <<"5", "0">>
    /\ Len(call.results) > 0

\* ------------------------------------------------- accounts and sessions
StatusFound == 302

\* Form values of the account handlers.
Usernames == {"alice", "bob"}
Emails == {"", "alice@example.com"}
Passwords == {"secret", "guess"}
RegisterUsernames == Usernames \cup {""}
RegisterEmails == Emails \cup {"bob@example.com"}
RegisterPasswords == Passwords \cup {""}
AuthQueries == { <<>>, <<"a">> }

\* bcrypt.GenerateFromPassword: the hash is not the password.
Hash(password) == <<"$2a$", password>>

\* bcrypt.CompareHashAndPassword(hash, password) = nil.
CompareHashAndPassword(hash, password) == hash = Hash(password)

\* isAuthenticated: the request's session holds the key user_id.
isAuthenticated(cookie) == "user_id" \in DOMAIN cookie.values

\* The response of an account handler, as the last call: a 200 is the
\* handler's own form rendered with the error and the submitted username.
AuthCall(op, username, password, status, location, error) ==
    [op |-> op, n |-> call.n + 1, username |-> username, password |-> password,
     status |-> status, location |-> location, error |-> error,
     page |-> IF status = StatusOK THEN op ELSE ""]

\* Faulty variant of APIRegisterHandler: password2 is not compared.
APIRegisterHandlerNoConfirm(username, email, pw1, pw2, fault) ==
    /\ dbConfigured
    /\ call.n < MaxStoreCalls
    /\ LET exists == Cardinality({u \in users : u.username = username})
           row == [id |-> Cardinality(users) + 1, username |-> username,
                   email |-> email, password |-> Hash(pw1)]
           form == [email |-> email, password2 |-> pw2]
           error ==
               IF fault = "parse" THEN "Bad request"
               ELSE IF username = "" \/ email = "" \/ pw1 = ""
               THEN "All fields required"
               ELSE IF fault = "query" THEN "Database error"
               ELSE IF exists > 0 THEN "Username already in use"
               ELSE IF fault = "hash" THEN "Internal error, please try again"
               ELSE IF fault = "insert" \/ \E u \in users : u.email = email
                    THEN "Registration failed"
               ELSE ""
       IN IF error # ""
          THEN /\ call' = AuthCall("register", username, pw1, StatusOK, "", error)
                           @@ form
               /\ UNCHANGED users
          ELSE /\ call' = AuthCall("register", username, pw1, StatusFound,
                                   "/login", "") @@ form
               /\ users' = users \cup {row}
    /\ UNCHANGED <<dbConfigured, useFTSSearch, externalEnabled, external_results,
                   started, req, jar, migVars>>

\* APIRegisterHandler; fault names the step that fails: the parsing of the
\* form, the COUNT query, bcrypt or the INSERT.
APIRegisterHandler(username, email, pw1, pw2, fault) ==
    /\ dbConfigured
    /\ call.n < MaxStoreCalls
    /\ LET exists == Cardinality({u \in users : u.username = username})
           row == [id |-> Cardinality(users) + 1, username |-> username,
                   email |-> email, password |-> Hash(pw1)]
           form == [email |-> email, password2 |-> pw2]
           error ==
               IF fault = "parse" THEN "Bad request"
               ELSE IF username = "" \/ email = "" \/ pw1 = ""
               THEN "All fields required"
               ELSE IF pw1 # pw2 THEN "Passwords do not match"
               ELSE IF fault = "query" THEN "Database error"
               ELSE IF exists > 0 THEN "Username already in use"
               ELSE IF fault = "hash" THEN "Internal error, please try again"
               ELSE IF fault = "insert" \/ \E u \in users : u.email = email
                    THEN "Registration failed"
               ELSE ""
       IN IF error # ""
          THEN /\ call' = AuthCall("register", username, pw1, StatusOK, "", error)
                           @@ form
               /\ UNCHANGED users
          ELSE /\ call' = AuthCall("register", username, pw1, StatusFound,
                                   "/login", "") @@ form
               /\ users' = users \cup {row}
    /\ UNCHANGED <<dbConfigured, useFTSSearch, externalEnabled, external_results,
                   started, req, jar, migVars>>

\* Faulty variant of APILoginHandler: an unknown username and a wrong
\* password are answered with different messages.
APILoginHandlerDistinct(username, password, fault) ==
    /\ dbConfigured
    /\ call.n < MaxStoreCalls
    /\ LET found == {u \in users : u.username = username}
           valid == /\ fault # "query"
                    /\ \E u \in found : CompareHashAndPassword(u.password, password)
       IN IF ~valid
          THEN /\ call' = AuthCall("login", username, password, StatusOK, "",
                                   IF found = {} \/ fault = "query"
                                   THEN "Invalid username"
                                   ELSE "Invalid password")
               /\ UNCHANGED jar
          ELSE IF fault \in {"get", "save"}
          THEN /\ call' = AuthCall("login", username, password, StatusOK, "",
                                   "Internal server error")
               /\ UNCHANGED jar
          ELSE LET u == CHOOSE u \in found : TRUE
               IN /\ call' = AuthCall("login", username, password, StatusFound,
                                      "/", "")
                  /\ jar' = [set |-> TRUE,
                             values |-> [k \in DOMAIN jar.values \cup {"user_id"}
                                            |-> IF k = "user_id" THEN u.id
                                                ELSE jar.values[k]]]
    /\ UNCHANGED <<dbConfigured, useFTSSearch, externalEnabled, external_results,
                   started, req, users, migVars>>

\* APILoginHandler; fault names the step that fails: the users query, the
\* decoding of the request's cookie or the saving of the session.
APILoginHandler(username, password, fault) ==
    /\ dbConfigured
    /\ call.n < MaxStoreCalls
    /\ LET found == {u \in users : u.username = username}
           valid == /\ fault # "query"
                    /\ \E u \in found : CompareHashAndPassword(u.password, password)
       IN IF ~valid
          THEN /\ call' = AuthCall("login", username, password, StatusOK, "",
                                   "Invalid username or password")
               /\ UNCHANGED jar
          ELSE IF fault \in {"get", "save"}
          THEN /\ call' = AuthCall("login", username, password, StatusOK, "",
                                   "Internal server error")
               /\ UNCHANGED jar
          ELSE LET u == CHOOSE u \in found : TRUE
               IN /\ call' = AuthCall("login", username, password, StatusFound,
                                      "/", "")
                  /\ jar' = [set |-> TRUE,
                             values |-> [k \in DOMAIN jar.values \cup {"user_id"}
                                            |-> IF k = "user_id" THEN u.id
                                                ELSE jar.values[k]]]
    /\ UNCHANGED <<dbConfigured, useFTSSearch, externalEnabled, external_results,
                   started, req, users, migVars>>

\* Faulty variant of APILogoutHandler: the session saved as it came.
APILogoutHandlerKeep(fault) ==
    /\ call.n < MaxStoreCalls
    /\ IF fault \in {"get", "save"}
       THEN /\ call' = AuthCall("logout", "", "", StatusInternalServerError, "",
                                "Internal Server Error")
            /\ UNCHANGED jar
       ELSE /\ call' = AuthCall("logout", "", "", StatusFound, "/", "")
            /\ jar' = [set |-> TRUE, values |-> jar.values]
    /\ UNCHANGED <<dbConfigured, useFTSSearch, externalEnabled, external_results,
                   started, req, users, migVars>>

\* APILogoutHandler: user_id deleted from the session, the session saved.
APILogoutHandler(fault) ==
    /\ call.n < MaxStoreCalls
    /\ IF fault \in {"get", "save"}
       THEN /\ call' = AuthCall("logout", "", "", StatusInternalServerError, "",
                                "Internal Server Error")
            /\ UNCHANGED jar
       ELSE /\ call' = AuthCall("logout", "", "", StatusFound, "/", "")
            /\ jar' = [set |-> TRUE,
                       values |-> [k \in DOMAIN jar.values \ {"user_id"}
                                      |-> jar.values[k]]]
    /\ UNCHANGED <<dbConfigured, useFTSSearch, externalEnabled, external_results,
                   started, req, users, migVars>>

\* GET /api/search sent with the cookie the client holds.
ApiSearch(r, q, langParam) == Receive(r, "api", q, langParam, isAuthenticated(jar))

NextAuth ==
    \/ \E username \in Usernames, email \in Emails, pw1 \in Passwords,
          pw2 \in Passwords, fault \in {"none", "query", "hash", "insert"} :
          APIRegisterHandler(username, email, pw1, pw2, fault)
    \/ \E username \in Usernames, password \in Passwords,
          fault \in {"none", "query", "get", "save"} :
          APILoginHandler(username, password, fault)
    \/ \E fault \in {"none", "get", "save"} : APILogoutHandler(fault)
    \/ \E r \in Reqs, q \in AuthQueries : ApiSearch(r, q, "")
    \/ \E r \in Reqs, io \in {"ok", "err"} : LocalPhase(r, "ok", io)
    \/ \E r \in Reqs : EnrichOrRespond(r, FALSE)

\* Clients registering, logging in, searching and logging out, each request
\* sent with the cookie the server set last.
SpecAuth == Init /\ [][NextAuth]_vars

NextRegister ==
    \E username \in RegisterUsernames, email \in RegisterEmails,
       pw1 \in RegisterPasswords, pw2 \in RegisterPasswords,
       fault \in {"none", "parse", "query", "hash", "insert"} :
       APIRegisterHandler(username, email, pw1, pw2, fault)

\* Registration forms of every shape submitted one after another.
SpecRegister == Init /\ [][NextRegister]_vars

\* ------------------------------------------------------------------ C23
\* The step is a login that found the username and matched its password.
ValidLoginStep ==
    /\ call'.n = call.n + 1
    /\ call'.op = "login"
    /\ call'.status = StatusFound
    /\ \E u \in users : /\ u.username = call'.username
                        /\ u.password # call'.password
                        /\ CompareHashAndPassword(u.password, call'.password)
                        /\ jar'.values["user_id"] = u.id

\* The step is a search request sent to /api/search.
ApiSearchStep(r) ==
    /\ started' = started + 1
    /\ req'[r] # req[r]
    /\ req'[r].path = "api"

\* C23: following the cookies the server sets, the session carries user_id
\* only after a login with an existing username and its matching password,
\* which needs a successful register before it; /api/search sent with that
\* cookie answers 200 with a search_results body; the cookie a logout returns
\* carries no user_id, and /api/search sent with it answers 401.
C23_SessionFlow ==
    [][ /\ (~isAuthenticated(jar) /\ isAuthenticated(jar')) => ValidLoginStep
        /\ (isAuthenticated(jar) /\ isAuthenticated(jar')) =>
               jar'.values["user_id"] = jar.values["user_id"] \/ ValidLoginStep
        /\ isAuthenticated(jar') => \E u \in users' : u.id = jar'.values["user_id"]
        /\ (call'.n = call.n + 1 /\ call'.op = "logout" /\ jar' # jar) =>
               ~isAuthenticated(jar')
        /\ (call'.n = call.n + 1 /\ call'.op = "logout"
               /\ call'.status = StatusFound) =>
               jar'.set /\ ~isAuthenticated(jar')
        /\ \A r \in Reqs :
              ApiSearchStep(r) =>
                  /\ req'[r].authed <=> isAuthenticated(jar)
                  /\ (dbConfigured /\ ~isAuthenticated(jar)) =>
                        /\ req'[r].pc = "done"
                        /\ req'[r].status = StatusUnauthorized
                        /\ req'[r].body = [type |-> "json", error |-> "unauthorized"]
        /\ \A r \in Reqs :
              (req'[r].pc = "done" /\ req'[r].path = "api" /\ req'[r].authed
                  /\ dbConfigured) =>
                  /\ req'[r].status = StatusOK
                  /\ req'[r].body = [type |-> "json", error |-> ""]
      ]_vars

\* C23 witness: a search with the login cookie answered 200, then a logout,
\* then a search with the cookie of the logout answered 401.
C23_Witness ==
    /\ users # {}
    /\ call.op = "logout" /\ call.status = StatusFound
    /\ jar.set /\ ~isAuthenticated(jar)
    /\ req[1].pc = "done" /\ req[1].authed /\ req[1].status = StatusOK
    /\ Len(req[1].results) > 0
    /\ req[2].pc = "done" /\ ~req[2].authed /\ req[2].status = StatusUnauthorized

\* ---------------------------------------------- the home page and /readyz
StatusServiceUnavailable == 503

\* Text is a sequence of bytes: an ASCII byte is written as its character, a
\* byte above 0x7F by its two hexadecimal digits.
NonASCII == {"C3", "A6"}
HexDigits(b) == IF b = "C3" THEN <<"C", "3">> ELSE <<"A", "6">>

\* The percent escapes a query of the model holds, with the byte each stands
\* for; any other text after % is a malformed escape.
Escapes ==
    { <<"2", "0", " ">>, <<"6", "1", "a">>, <<"C", "3", "C3">>, <<"A", "6", "A6">> }

\* The position of the first c in s, or Len(s) + 1.
IndexOf(s, c) ==
    LET at == {k \in 1..Len(s) : s[k] = c}
    IN IF at = {} THEN Len(s) + 1 ELSE CHOOSE k \in at : \A j \in at : k <= j

\* url.QueryUnescape: + is a space, %XX is a byte, a malformed escape is an
\* error.
RECURSIVE QueryUnescape(_)
QueryUnescape(s) ==
    IF s = <<>> THEN [ok |-> TRUE, text |-> <<>>]
    ELSE IF Head(s) = "%"
    THEN IF Len(s) >= 3 /\ \E e \in Escapes : e[1] = s[2] /\ e[2] = s[3]
         THEN LET e == CHOOSE e \in Escapes : e[1] = s[2] /\ e[2] = s[3]
                  rest == QueryUnescape(SubSeq(s, 4, Len(s)))
              IN [ok |-> rest.ok, text |-> <<e[3]>> \o rest.text]
         ELSE [ok |-> FALSE, text |-> <<>>]
    ELSE LET rest == QueryUnescape(Tail(s))
         IN [ok |-> rest.ok,
             text |-> <<IF Head(s) = "+" THEN " " ELSE Head(s)>> \o rest.text]

\* url.ParseQuery as URL.Query() uses it: the pairs between &, each cut at
\* its first =; a pair with a semicolon, an empty key or a malformed escape
\* is dropped.
RECURSIVE ParseQuery(_)
ParseQuery(raw) ==
    IF raw = <<>> THEN <<>>
    ELSE LET amp == IndexOf(raw, "&")
             pair == SubSeq(raw, 1, amp - 1)
             rest == ParseQuery(SubSeq(raw, amp + 1, Len(raw)))
             eq == IndexOf(pair, "=")
             key == QueryUnescape(SubSeq(pair, 1, eq - 1))
             value == QueryUnescape(SubSeq(pair, eq + 1, Len(pair)))
         IN IF \/ IndexOf(pair, ";") <= Len(pair)
               \/ pair = <<>>
               \/ ~key.ok \/ ~value.ok
            THEN rest
            ELSE << <<key.text, value.text>> >> \o rest

\* url.Values.Get: the first value of the key, or the empty text.
QueryGet(values, key) ==
    LET at == {k \in 1..Len(values) : values[k][1] = key}
    IN IF at = {} THEN <<>>
       ELSE values[CHOOSE k \in at : \A j \in at : k <= j][2]

\* Faulty variant of hexEscapeNonASCII: the text sent as it is.
hexEscapeNone(s) == s

\* net/http hexEscapeNonASCII, applied by http.Redirect to the Location:
\* every byte above 0x7F becomes % and its two hexadecimal digits.
RECURSIVE hexEscapeNonASCII(_)
hexEscapeNonASCII(s) ==
    IF s = <<>> THEN <<>>
    ELSE (IF Head(s) \in NonASCII THEN <<"%">> \o HexDigits(Head(s))
          ELSE <<Head(s)>>) \o hexEscapeNonASCII(Tail(s))

\* The raw query strings of the requests to the home page.
RawQueries ==
    { <<>>,
      <<"q", "=">>,
      <<"l", "=", "e", "n">>,
      <<"q", "=", "a">>,
      <<"q", "=", "a", "&", "l", "=", "e", "n">>,
      <<"l", "=", "e", "n", "&", "q", "=", "a", "+", "b">>,
      <<"q", "=", "%", "2", "0">>,
      <<"q", "=", "%", "6", "1">>,
      <<"q", "=", "%", "z", "z">>,
      <<"q", "=", "&", "q", "=", "a">>,
      <<"q", "=", "a", ";", "b">>,
      <<"q", "=", "C3", "A6">>,
      <<"q", "=", "%", "C", "3", "%", "A", "6">> }

Slash == <<"/", "s", "e", "a", "r", "c", "h">>

\* Faulty variant of HomePageHandler: the redirect carrying only q.
HomePageHandlerQOnly(raw, cookie) ==
    /\ call.n < MaxStoreCalls
    /\ LET q == QueryGet(ParseQuery(raw), <<"q">>)
       IN IF q # <<>>
          THEN call' = [op |-> "HomePageHandler", n |-> call.n + 1, raw |-> raw,
                        q |-> q, status |-> StatusFound,
                        location |-> hexEscapeNonASCII(Slash \o <<"?", "q", "=">> \o q),
                        template |-> "", data |-> <<>>]
          ELSE call' = [op |-> "HomePageHandler", n |-> call.n + 1, raw |-> raw,
                        q |-> q, status |-> StatusOK, location |-> <<>>,
                        template |-> "search",
                        data |-> [Title |-> "Home", Query |-> <<>>,
                                  Results |-> <<>>,
                                  LoggedIn |-> isAuthenticated(cookie)]]
    /\ UNCHANGED <<sideVars, dbConfigured, useFTSSearch, externalEnabled,
                   external_results, started, req>>

\* HomePageHandler: a request with a query is redirected to /search, any
\* other gets the empty search page.  http.Redirect leaves the path /search
\* as it is and escapes the Location.
HomePageHandler(raw, cookie) ==
    /\ call.n < MaxStoreCalls
    /\ LET q == QueryGet(ParseQuery(raw), <<"q">>)
           target == IF raw # <<>> THEN Slash \o <<"?">> \o raw ELSE Slash
       IN IF q # <<>>
          THEN call' = [op |-> "HomePageHandler", n |-> call.n + 1, raw |-> raw,
                        q |-> q, status |-> StatusFound,
                        location |-> hexEscapeNonASCII(target),
                        template |-> "", data |-> <<>>]
          ELSE call' = [op |-> "HomePageHandler", n |-> call.n + 1, raw |-> raw,
                        q |-> q, status |-> StatusOK, location |-> <<>>,
                        template |-> "search",
                        data |-> [Title |-> "Home", Query |-> <<>>,
                                  Results |-> <<>>,
                                  LoggedIn |-> isAuthenticated(cookie)]]
    /\ UNCHANGED <<sideVars, dbConfigured, useFTSSearch, externalEnabled,
                   external_results, started, req>>

\* Faulty variant of Readyz: the ping's error not looked at.
ReadyzNoPing(ping) ==
    /\ call.n < MaxStoreCalls
    /\ call' = [op |-> "Readyz", n |-> call.n + 1, db |-> dbConfigured,
                ping |-> IF dbConfigured THEN ping ELSE "none",
                status |-> IF dbConfigured THEN StatusOK
                           ELSE StatusServiceUnavailable,
                body |-> IF dbConfigured THEN "ready"
                         ELSE "database not configured"]
    /\ UNCHANGED <<sideVars, dbConfigured, useFTSSearch, externalEnabled,
                   external_results, started, req>>

\* Readyz: the nil check, then db.PingContext; ping is its outcome, which
\* is an error when the database fails and when the context runs out.
Readyz(ping) ==
    /\ call.n < MaxStoreCalls
    /\ call' = [op |-> "Readyz", n |-> call.n + 1, db |-> dbConfigured,
                ping |-> IF dbConfigured THEN ping ELSE "none",
                status |-> IF dbConfigured /\ ping = "ok" THEN StatusOK
                           ELSE StatusServiceUnavailable,
                body |-> IF ~dbConfigured THEN "database not configured"
                         ELSE IF ping # "ok" THEN "database not ready"
                         ELSE "ready"]
    /\ UNCHANGED <<sideVars, dbConfigured, useFTSSearch, externalEnabled,
                   external_results, started, req>>

\* The cookies a request to the home page may carry.
HomeCookies == {NoCookie, [set |-> TRUE, values |-> [k \in {"user_id"} |-> 1]]}

NextHandlers ==
    \/ \E raw \in RawQueries, cookie \in HomeCookies : HomePageHandler(raw, cookie)
    \/ \E ping \in {"ok", "err", "timeout"} : Readyz(ping)

\* Any sequence of requests to the home page and to /readyz.
SpecHandlers == Init /\ [][NextHandlers]_vars

\* ------------------------------------------------------------------ C24
\* C24 as stated: with a non-empty q the home page redirects with 302 to
\* /search followed by the raw query string unchanged and runs no search;
\* with q absent or empty it renders the search page with 200, an empty query
\* and no results.
C24_RawQueryUnchanged ==
    call.op = "HomePageHandler" =>
        /\ call.q # <<>> =>
              /\ call.status = StatusFound
              /\ call.location = Slash \o <<"?">> \o call.raw
              /\ call.template = ""
        /\ call.q = <<>> =>
              /\ call.status = StatusOK
              /\ call.template = "search"
              /\ call.data.Query = <<>> /\ call.data.Results = <<>>
        /\ \A r \in Reqs : req[r] = NoRequest

\* C24 amended: the redirect's Location is /search? followed by the raw query
\* string with every non-ASCII byte percent-encoded, so it equals the raw
\* query string whenever that is ASCII; the rest as stated.
C24_RawQueryEscaped ==
    call.op = "HomePageHandler" =>
        /\ call.q # <<>> =>
              /\ call.status = StatusFound
              /\ call.location = Slash \o <<"?">> \o hexEscapeNonASCII(call.raw)
              /\ (\A k \in DOMAIN call.raw : call.raw[k] \notin NonASCII) =>
                    call.location = Slash \o <<"?">> \o call.raw
              /\ ParseQuery(SubSeq(call.location, Len(Slash) + 2,
                                   Len(call.location))) = ParseQuery(call.raw)
              /\ call.template = ""
        /\ call.q = <<>> =>
              /\ call.status = StatusOK
              /\ call.template = "search"
              /\ call.data.Query = <<>> /\ call.data.Results = <<>>
        /\ \A r \in Reqs : req[r] = NoRequest

\* C24 witness: a redirect whose query holds a second parameter.
C24_Witness ==
    /\ call.op = "HomePageHandler"
    /\ call.status = StatusFound
    /\ call.q = <<"a">>
    /\ call.location = Slash \o <<"?", "q", "=", "a", "&", "l", "=", "e", "n">>

\* ------------------------------------------------------------------ C25
\* C25: Readyz answers 200 with the body ready exactly when a database is
\* configured and its ping succeeds, and 503 in every other case: no
\* database configured, or the ping failing or timing out.
C25_ReadyIffPing ==
    call.op = "Readyz" =>
        /\ call.status \in {StatusOK, StatusServiceUnavailable}
        /\ (call.status = StatusOK /\ call.body = "ready")
              <=> (call.db /\ call.ping = "ok")
        /\ call.status = StatusServiceUnavailable
              <=> (~call.db \/ call.ping \in {"err", "timeout"})
        /\ call.status = StatusOK => call.body = "ready"
        /\ call.db = dbConfigured

\* C25 witness: a configured database whose ping timed out, answered 503.
C25_Witness ==
    /\ call.op = "Readyz"
    /\ call.db /\ call.ping = "timeout"
    /\ call.status = StatusServiceUnavailable
    /\ call.body = "database not ready"

\* ------------------------------------------------------- RunMigrations
\* migrationVersionFromFile: the base name without .sql; the files are named
\* by a zero-padded number, so sort.Strings orders them by that number.
Version(f) ==
    (IF f < 10 THEN <<"0", "0", "0">> ELSE IF f < 100 THEN <<"0", "0">>
     ELSE <<"0">>) \o Digits(f)

\* The number of statements splitSQLStatements finds in a file.
NStmts(f) == IF f % 2 = 1 THEN 2 ELSE 1

\* migrationApplied's answer.
Applied(f) == Version(f) \in schema_migrations.versions

\* What a step of one process leaves alone.
OthersUnchanged ==
    UNCHANGED <<authVars, dbConfigured, useFTSSearch, externalEnabled,
                external_results, started, req, call>>

\* The call returns err: the deferred functions run next.
Return(p, err) ==
    runner' = [runner EXCEPT ![p].pc = "exit", ![p].err = err, ![p].tx = {}]

\* The loop moves to the next file, or ends.
NextFile(p) ==
    IF runner[p].idx < NFiles
    THEN runner' = [runner EXCEPT ![p].pc = "check", ![p].idx = @ + 1,
                                  ![p].stmt = 0, ![p].tx = {}]
    ELSE runner' = [runner EXCEPT ![p].pc = "exit", ![p].err = "",
                                  ![p].stmt = 0, ![p].tx = {}]

\* RunMigrations called: the context with its 30 s timeout and db.Conn.
StartRun(p, ok) ==
    /\ runner[p].pc \in {"idle", "done"}
    /\ runner[p].runs < MaxRuns
    /\ runner' = [runner EXCEPT ![p] =
                     [NoRun EXCEPT !.runs = runner[p].runs + 1,
                                   !.pc = IF ok THEN "lock" ELSE "done",
                                   !.err = IF ok THEN "" ELSE "conn"]]
    /\ UNCHANGED <<schema_migrations, effects, advisoryLock>>
    /\ OthersUnchanged

\* The 30 s of the call's context run out: every later call made with it
\* fails.
Expire(p) ==
    /\ runner[p].pc \in {"lock", "ensure", "check", "exec", "record", "commit"}
    /\ ~runner[p].expired
    /\ runner' = [runner EXCEPT ![p].expired = TRUE]
    /\ UNCHANGED <<schema_migrations, effects, advisoryLock>>
    /\ OthersUnchanged

\* Faulty variant of AcquireLock: the lock granted while another session
\* holds it.
AcquireLockShared(p) ==
    /\ runner[p].pc = "lock"
    /\ ~runner[p].expired
    /\ advisoryLock' = p
    /\ runner' = [runner EXCEPT ![p].pc = "ensure", ![p].locked = TRUE,
                                ![p].seen = schema_migrations.versions]
    /\ UNCHANGED <<schema_migrations, effects>>
    /\ OthersUnchanged

\* SELECT pg_advisory_lock returning: it waits until no other session holds
\* the lock.
AcquireLock(p) ==
    /\ runner[p].pc = "lock"
    /\ ~runner[p].expired
    /\ advisoryLock = 0
    /\ advisoryLock' = p
    /\ runner' = [runner EXCEPT ![p].pc = "ensure", ![p].locked = TRUE,
                                ![p].seen = schema_migrations.versions]
    /\ UNCHANGED <<schema_migrations, effects>>
    /\ OthersUnchanged

\* SELECT pg_advisory_lock failing: the context ran out while it waited, or
\* the database failed.
LockFails(p) ==
    /\ runner[p].pc = "lock"
    /\ Return(p, "lock")
    /\ UNCHANGED <<schema_migrations, effects, advisoryLock>>
    /\ OthersUnchanged

\* ensureSchemaMigrationsTable and loadMigrationFiles.
Ensure(p, ok) ==
    /\ runner[p].pc = "ensure"
    /\ ok => ~runner[p].expired
    /\ IF ok
       THEN /\ schema_migrations' = [schema_migrations EXCEPT !.exists = TRUE]
            /\ runner' = [runner EXCEPT ![p].pc = "check", ![p].idx = 1]
       ELSE /\ Return(p, "ensure")
            /\ UNCHANGED schema_migrations
    /\ UNCHANGED <<effects, advisoryLock>>
    /\ OthersUnchanged

\* Faulty variant of CheckApplied: the ledger not consulted.
CheckAppliedNever(p, outcome) ==
    /\ runner[p].pc = "check"
    /\ outcome = "ok" => ~runner[p].expired
    /\ IF outcome = "queryFails" THEN Return(p, "query")
       ELSE IF outcome = "beginFails" THEN Return(p, "begin")
       ELSE runner' = [runner EXCEPT ![p].pc = "exec", ![p].stmt = 1,
                                     ![p].tx = {}]
    /\ UNCHANGED <<schema_migrations, effects, advisoryLock>>
    /\ OthersUnchanged

\* One turn of the loop up to the first statement: migrationApplied, then
\* for a file not recorded os.ReadFile and conn.BeginTx.
CheckApplied(p, outcome) ==
    /\ runner[p].pc = "check"
    /\ outcome = "ok" => ~runner[p].expired
    /\ IF outcome = "queryFails" THEN Return(p, "query")
       ELSE IF Applied(runner[p].idx) THEN NextFile(p)
       ELSE IF outcome = "beginFails" THEN Return(p, "begin")
       ELSE runner' = [runner EXCEPT ![p].pc = "exec", ![p].stmt = 1,
                                     ![p].tx = {}]
    /\ UNCHANGED <<schema_migrations, effects, advisoryLock>>
    /\ OthersUnchanged

\* Faulty variant of ExecStatement: after a failed statement the earlier ones
\* stay in effect.
ExecStatementNoRollback(p, ok) ==
    /\ runner[p].pc = "exec"
    /\ ok => ~runner[p].expired
    /\ LET f == runner[p].idx
           k == runner[p].stmt
           ran == IF runner[p].ran # <<>> /\ runner[p].ran[Len(runner[p].ran)] = f
                  THEN runner[p].ran ELSE Append(runner[p].ran, f)
       IN IF ok
          THEN /\ runner' = [runner EXCEPT
                                ![p].tx = @ \cup {k}, ![p].ran = ran,
                                ![p].pc = IF k = NStmts(f) THEN "record" ELSE "exec",
                                ![p].stmt = IF k = NStmts(f) THEN k ELSE k + 1]
               /\ UNCHANGED effects
          ELSE /\ runner' = [runner EXCEPT ![p].pc = "exit",
                                ![p].err = "statement", ![p].tx = {},
                                ![p].ran = ran]
               /\ effects' = [effects EXCEPT ![f].stmts = @ \cup runner[p].tx]
    /\ UNCHANGED <<schema_migrations, advisoryLock>>
    /\ OthersUnchanged

\* applyMigrationFile: the next statement of the file in the transaction; a
\* failed statement rolls the transaction back and ends the call.
ExecStatement(p, ok) ==
    /\ runner[p].pc = "exec"
    /\ ok => ~runner[p].expired
    /\ LET f == runner[p].idx
           k == runner[p].stmt
           ran == IF runner[p].ran # <<>> /\ runner[p].ran[Len(runner[p].ran)] = f
                  THEN runner[p].ran ELSE Append(runner[p].ran, f)
       IN IF ok
          THEN runner' = [runner EXCEPT
                             ![p].tx = @ \cup {k}, ![p].ran = ran,
                             ![p].pc = IF k = NStmts(f) THEN "record" ELSE "exec",
                             ![p].stmt = IF k = NStmts(f) THEN k ELSE k + 1]
          ELSE runner' = [runner EXCEPT ![p].pc = "exit",
                             ![p].err = "statement", ![p].tx = {},
                             ![p].ran = ran]
    /\ UNCHANGED <<schema_migrations, effects, advisoryLock>>
    /\ OthersUnchanged

\* applyMigrationFile: INSERT INTO schema_migrations in the transaction; it
\* fails on a version already recorded (the primary key) and rolls back.
RecordVersion(p, ok) ==
    /\ runner[p].pc = "record"
    /\ ok => ~runner[p].expired
    /\ IF Applied(runner[p].idx) THEN Return(p, "conflict")
       ELSE IF ~ok THEN Return(p, "insert")
       ELSE runner' = [runner EXCEPT ![p].pc = "commit"]
    /\ UNCHANGED <<schema_migrations, effects, advisoryLock>>
    /\ OthersUnchanged

\* applyMigrationFile: tx.Commit; the statements and the version take effect
\* together, or not at all.
Commit(p, ok) ==
    /\ runner[p].pc = "commit"
    /\ ok => ~runner[p].expired
    /\ LET f == runner[p].idx
       IN IF ok
          THEN /\ effects' = [effects EXCEPT ![f].stmts = @ \cup runner[p].tx,
                                             ![f].commits = @ + 1]
               /\ schema_migrations' =
                      [schema_migrations EXCEPT !.versions = @ \cup {Version(f)}]
               /\ NextFile(p)
          ELSE /\ Return(p, "commit")
               /\ UNCHANGED <<schema_migrations, effects>>
    /\ UNCHANGED advisoryLock
    /\ OthersUnchanged

\* Faulty variant of Exit: the unlock statement run under the call's context,
\* so that it fails once the context has run out.
ExitUnlockWithCtx(p) ==
    /\ runner[p].pc = "exit"
    /\ runner' = [runner EXCEPT ![p].pc = "done",
                                ![p].unlocks = IF runner[p].locked THEN @ + 1 ELSE @]
    /\ advisoryLock' = IF runner[p].locked /\ advisoryLock = p /\ ~runner[p].expired
                       THEN 0 ELSE advisoryLock
    /\ UNCHANGED <<schema_migrations, effects>>
    /\ OthersUnchanged

\* The deferred functions: SELECT pg_advisory_unlock under a background
\* context when locked is set, then conn.Close and cancel.
Exit(p) ==
    /\ runner[p].pc = "exit"
    /\ runner' = [runner EXCEPT ![p].pc = "done",
                                ![p].unlocks = IF runner[p].locked THEN @ + 1 ELSE @]
    /\ advisoryLock' = IF runner[p].locked /\ advisoryLock = p THEN 0
                       ELSE advisoryLock
    /\ UNCHANGED <<schema_migrations, effects>>
    /\ OthersUnchanged

NextMig ==
    \/ \E p \in Runners, ok \in BOOLEAN : StartRun(p, ok)
    \/ \E p \in Runners : Expire(p)
    \/ \E p \in Runners : AcquireLock(p)
    \/ \E p \in Runners : LockFails(p)
    \/ \E p \in Runners, ok \in BOOLEAN : Ensure(p, ok)
    \/ \E p \in Runners, outcome \in {"ok", "queryFails", "beginFails"} :
          CheckApplied(p, outcome)
    \/ \E p \in Runners, ok \in BOOLEAN : ExecStatement(p, ok)
    \/ \E p \in Runners, ok \in BOOLEAN : RecordVersion(p, ok)
    \/ \E p \in Runners, ok \in BOOLEAN : Commit(p, ok)
    \/ \E p \in Runners : Exit(p)

\* Processes calling RunMigrations against one database, at any times.
SpecMig == Init /\ [][NextMig]_vars

\* ------------------------------------------------------------------ C26
\* A process is between taking the lock and its deferred unlock.
HoldsLock(p) ==
    /\ runner[p].locked
    /\ runner[p].pc \in {"ensure", "check", "exec", "record", "commit", "exit"}

AllVersions == {Version(f) : f \in Files}

\* C26: with several processes in RunMigrations against one database, the
\* advisory lock admits one at a time, every migration file is committed at
\* most once, exactly once as soon as some call returned without an error,
\* two calls execute statements of the same file only when one of them
\* failed, and no call fails because another process already applied a
\* migration.
C26_OneRunnerAtATime ==
    /\ \A p, q \in Runners : (HoldsLock(p) /\ HoldsLock(q)) => p = q
    /\ \A p \in Runners : HoldsLock(p) => advisoryLock = p
    /\ \A f \in Files : effects[f].commits <= 1
    /\ \A p \in Runners : runner[p].err # "conflict"
    /\ \A p, q \in Runners :
          (p # q /\ Range(runner[p].ran) \cap Range(runner[q].ran) # {}) =>
              runner[p].err # "" \/ runner[q].err # ""
    /\ \A p \in Runners :
          (runner[p].pc \in {"exit", "done"} /\ runner[p].runs > 0
              /\ runner[p].err = "") =>
              \A f \in Files : effects[f].commits = 1 /\ Applied(f)

\* C26 witness: two processes are in RunMigrations at once; the first holds
\* the lock, has committed the first two files and is committing the third,
\* the second waits for the lock.
C26_Witness ==
    /\ advisoryLock = 1
    /\ runner[1].pc = "commit" /\ runner[1].idx = 3
    /\ runner[1].ran = <<1, 2, 3>>
    /\ effects[1].commits = 1 /\ effects[2].commits = 1
    /\ runner[2].pc = "lock" /\ runner[2].runs = 1 /\ ~runner[2].expired

\* ------------------------------------------------------------------ C27
\* C27: a failed statement of a migration file rolls the transaction back:
\* none of the file's statements is in effect, its version is not recorded,
\* the call returns an error and applies no later file; a version is recorded
\* only together with all statements of its file.
C27_AllOrNothing ==
    [][ /\ \A f \in Files :
              \/ effects'[f].stmts = {} /\ Version(f) \notin schema_migrations'.versions
              \/ /\ effects'[f].stmts = 1..NStmts(f)
                 /\ Version(f) \in schema_migrations'.versions
        /\ \A p \in Runners :
              (runner[p].pc \in {"exec", "record"} /\ runner'[p].pc = "exit") =>
                  /\ runner'[p].err \in {"statement", "insert"}
                  /\ runner'[p].tx = {}
                  /\ effects' = effects
                  /\ schema_migrations' = schema_migrations
                  /\ ~Applied(runner[p].idx)
        /\ \A p \in Runners :
              (runner[p].pc = "exit" /\ runner'[p] # runner[p]) =>
                  /\ runner'[p].pc = "done"
                  /\ runner'[p].err = runner[p].err
                  /\ runner'[p].ran = runner[p].ran
                  /\ effects' = effects
                  /\ schema_migrations' = schema_migrations
      ]_vars

\* C27 witness: the second statement of the first file failed; the call
\* returned the error with nothing of the file in effect or recorded and no
\* later file touched.
C27_Witness ==
    /\ runner[1].pc = "done" /\ runner[1].err = "statement"
    /\ runner[1].idx = 1 /\ runner[1].stmt = 2
    /\ runner[1].ran = <<1>>
    /\ effects[1].stmts = {} /\ ~Applied(1)
    /\ \A f \in Files : effects[f].commits = 0
    /\ runner[2].pc = "idle"

\* ------------------------------------------------------------------ C28
\* The first file without a recorded version.
FirstUnrecorded == CHOOSE f \in Files : ~Applied(f) /\ \A g \in Files : ~Applied(g) => f <= g

\* C28: a migration whose version is recorded is never executed again: a call
\* that finds every version recorded executes no migration statement and
\* leaves schema_migrations unchanged, and a call after a failed one starts
\* with the first file without a recorded version.
C28_RecordedNeverRerun ==
    [][ \A p \in Runners :
          /\ (runner'[p].ran # runner[p].ran /\ runner'[p].runs = runner[p].runs) =>
                /\ ~Applied(runner[p].idx)
                /\ runner'[p].ran[Len(runner'[p].ran)] = runner[p].idx
                /\ runner[p].ran = <<>> => runner[p].idx = FirstUnrecorded
          /\ (runner[p].locked /\ runner[p].seen = AllVersions
                 /\ runner'[p] # runner[p]) =>
                /\ runner[p].ran = <<>>
                /\ runner'[p].ran = <<>>
                /\ schema_migrations'.versions = schema_migrations.versions
                /\ effects' = effects
      ]_vars

\* C28 witness: a second call after a fully successful one executed nothing,
\* and a second call after a failed one resumed with the second file.
C28_Witness ==
    /\ runner[1].runs = 2 /\ runner[1].pc = "done" /\ runner[1].err = ""
    /\ runner[1].seen = AllVersions /\ runner[1].ran = <<>>
    /\ runner[2].runs = 2 /\ runner[2].pc = "done" /\ runner[2].err = ""
    /\ runner[2].seen = {Version(1)} /\ runner[2].ran = <<2, 3>>

\* ------------------------------------------------------------------ C29
\* C29: a call that acquired the advisory lock has released it when it has
\* returned, on every path (success, an error, its context run out), by one
\* unlock statement; a call that did not acquire the lock issues none.
C29_LockReleased ==
    \A p \in Runners :
        /\ runner[p].pc = "done" =>
              /\ advisoryLock # p
              /\ runner[p].unlocks = IF runner[p].locked THEN 1 ELSE 0
        /\ runner[p].pc # "done" => runner[p].unlocks = 0
        /\ runner[p].err \in {"conn", "lock"} => ~runner[p].locked
        /\ advisoryLock = p => runner[p].locked

\* C29 witness: the context ran out while the call held the lock; it
\* returned an error and the lock is free.
C29_Witness ==
    /\ runner[1].pc = "done" /\ runner[1].locked /\ runner[1].expired
    /\ runner[1].err = "commit"
    /\ runner[1].unlocks = 1
    /\ advisoryLock = 0

\* --------------------------------------------------- splitSQLStatements
\* Migration file contents: every text of up to MaxPieces of these pieces.
MaxPieces == 5
SQLPieces ==
    { <<"a">>, <<";">>, <<"'">>, <<"$">>, <<" ">>, <<"$", "$">>, <<"$", "t", "$">> }

RECURSIVE Flatten(_)
Flatten(pieces) ==
    IF pieces = <<>> THEN <<>> ELSE Head(pieces) \o Flatten(Tail(pieces))

Contents ==
    {Flatten(ps) : ps \in UNION {[1..n -> SQLPieces] : n \in 0..MaxPieces}}

\* isDollarTagChar
TagChars ==
    {"_", "a", "b", "c", "d", "e", "f", "g", "h", "i", "j", "k", "l", "m", "n",
     "o", "p", "q", "r", "s", "t", "u", "v", "w", "x", "y", "z",
     "A", "B", "C", "D", "E", "F", "G", "H", "I", "J", "K", "L", "M", "N",
     "O", "P", "Q", "R", "S", "T", "U", "V", "W", "X", "Y", "Z",
     "0", "1", "2", "3", "4", "5", "6", "7", "8", "9"}
isDollarTagChar(b) == b \in TagChars

\* parseDollarTag(content, start), positions counted from 1: the delimiter
\* $tag$ at start, if there is one.
parseDollarTag(content, start) ==
    LET stops == {k \in (start + 1)..Len(content) : ~isDollarTagChar(content[k])}
        tagEnd == IF stops = {} THEN Len(content) + 1
                  ELSE CHOOSE k \in stops : \A j \in stops : k <= j
    IN IF tagEnd <= Len(content) /\ content[tagEnd] = "$"
       THEN [ok |-> TRUE, tagEnd |-> tagEnd,
             tag |-> SubSeq(content, start + 1, tagEnd - 1)]
       ELSE [ok |-> FALSE, tagEnd |-> 0, tag |-> <<>>]

\* Faulty variant of IsBoundary: every semicolon a boundary.
IsBoundaryAnywhere(ch, st) == ch = ";"

\* tryHandleStatementBoundary's test.
IsBoundary(ch, st) == ch = ";" /\ ~st.inSingle /\ ~st.inDollar

\* flushStatement, and the emitting half of tryHandleStatementBoundary: the
\* buffer trimmed, appended unless empty.
flushStatement(buf, statements) ==
    IF TrimSpace(buf) # <<>> THEN Append(statements, TrimSpace(buf))
    ELSE statements

\* The loop of splitSQLStatements from position i on: st is the splitState,
\* buf the buffer; cuts collects the positions of the semicolons that ended
\* a statement.
RECURSIVE SplitLoop(_, _, _, _, _, _)
SplitLoop(content, i, st, buf, statements, cuts) ==
    IF i > Len(content)
    THEN [statements |-> flushStatement(buf, statements), cuts |-> cuts]
    ELSE LET ch == content[i]
             dp == parseDollarTag(content, i)
         IN IF ~st.inSingle /\ ch = "$" /\ dp.ok
            THEN SplitLoop(content, dp.tagEnd + 1,
                           IF st.inDollar
                           THEN IF dp.tag = st.dollarTag
                                THEN [st EXCEPT !.inDollar = FALSE,
                                                !.dollarTag = <<>>]
                                ELSE st
                           ELSE [st EXCEPT !.inDollar = TRUE,
                                           !.dollarTag = dp.tag],
                           buf \o SubSeq(content, i, dp.tagEnd),
                           statements, cuts)
            ELSE IF ~st.inDollar /\ ch = "'"
            THEN IF st.inSingle
                 THEN IF i + 1 <= Len(content) /\ content[i + 1] = "'"
                      THEN SplitLoop(content, i + 2, st,
                                     buf \o <<ch, content[i + 1]>>,
                                     statements, cuts)
                      ELSE SplitLoop(content, i + 1,
                                     [st EXCEPT !.inSingle = FALSE],
                                     Append(buf, ch), statements, cuts)
                 ELSE SplitLoop(content, i + 1, [st EXCEPT !.inSingle = TRUE],
                                Append(buf, ch), statements, cuts)
            ELSE IF IsBoundary(ch, st)
            THEN SplitLoop(content, i + 1, st, <<>>,
                           flushStatement(buf, statements), cuts \cup {i})
            ELSE SplitLoop(content, i + 1, st, Append(buf, ch), statements, cuts)

\* splitSQLStatements(content)
splitSQLStatements(content) ==
    SplitLoop(content, 1,
              [inSingle |-> FALSE, inDollar |-> FALSE, dollarTag |-> <<>>],
              <<>>, <<>>, {})

\* A migration file's content, before it is split.
InitSplit ==
    /\ dbConfigured = TRUE
    /\ useFTSSearch = FALSE
    /\ externalEnabled = TRUE
    /\ external_results = <<>>
    /\ started = 0
    /\ req = [r \in Reqs |-> NoRequest]
    /\ users = {}
    /\ jar = NoCookie
    /\ schema_migrations = NoLedger
    /\ effects = [f \in Files |-> [stmts |-> {}, commits |-> 0]]
    /\ advisoryLock = 0
    /\ runner = [p \in Runners |-> NoRun]
    /\ \E content \in Contents : call = [op |-> "content", n |-> 0, content |-> content]

\* applyMigrationFile's call of splitSQLStatements on the content.
CallSplit ==
    /\ call.op = "content"
    /\ LET out == splitSQLStatements(call.content)
       IN call' = [op |-> "splitSQLStatements", n |-> 1,
                   content |-> call.content, statements |-> out.statements,
                   cuts |-> out.cuts]
    /\ UNCHANGED <<sideVars, dbConfigured, useFTSSearch, externalEnabled,
                   external_results, started, req>>

NextSplit == CallSplit

SpecSplit == InitSplit /\ [][NextSplit]_vars

\* ------------------------------------------------------------------ C30
\* The position where the single-quoted string opened before k ends: its
\* closing quote, a doubled quote inside the string not counting; the end of
\* the text when the string is not closed.
RECURSIVE CloseSingle(_, _)
CloseSingle(content, k) ==
    IF k > Len(content) THEN Len(content)
    ELSE IF content[k] # "'" THEN CloseSingle(content, k + 1)
    ELSE IF k + 1 <= Len(content) /\ content[k + 1] = "'"
         THEN CloseSingle(content, k + 2)
    ELSE k

\* The position where the dollar-quoted block with the given tag ends: the
\* end of the next delimiter with that tag, or the end of the text.
RECURSIVE CloseDollar(_, _, _)
CloseDollar(content, k, tag) ==
    IF k > Len(content) THEN Len(content)
    ELSE IF content[k] = "$" /\ parseDollarTag(content, k).ok
    THEN IF parseDollarTag(content, k).tag = tag
         THEN parseDollarTag(content, k).tagEnd
         ELSE CloseDollar(content, parseDollarTag(content, k).tagEnd + 1, tag)
    ELSE CloseDollar(content, k + 1, tag)

\* The positions from i on that lie in a single-quoted string or in a
\* dollar-quoted block, delimiters included.
RECURSIVE Quoted(_, _)
Quoted(content, i) ==
    IF i > Len(content) THEN {}
    ELSE IF content[i] = "'"
    THEN LET j == CloseSingle(content, i + 1)
         IN (i..j) \cup Quoted(content, j + 1)
    ELSE IF content[i] = "$" /\ parseDollarTag(content, i).ok
    THEN LET dp == parseDollarTag(content, i)
             j == CloseDollar(content, dp.tagEnd + 1, dp.tag)
         IN (i..j) \cup Quoted(content, j + 1)
    ELSE Quoted(content, i + 1)

\* The pieces of content between the cuts, in order, each trimmed, the empty
\* ones left out; the piece after the last cut included.
RECURSIVE Segments(_, _, _)
Segments(content, cuts, from) ==
    IF from > Len(content) THEN <<>>
    ELSE LET later == {c \in cuts : c >= from}
             to == IF later = {} THEN Len(content) + 1
                   ELSE CHOOSE c \in later : \A d \in later : c <= d
             piece == TrimSpace(SubSeq(content, from, to - 1))
         IN (IF piece = <<>> THEN <<>> ELSE <<piece>>)
                \o Segments(content, cuts, to + 1)

FirstOccurrenceEnd(content, k, delim) ==
    LET at == {j \in k..(Len(content) - Len(delim) + 1) :
                  SubSeq(content, j, j + Len(delim) - 1) = delim}
    IN IF at = {} THEN Len(content)
       ELSE (CHOOSE j \in at : \A i \in at : j <= i) + Len(delim) - 1

\* The positions from i on inside a single-quoted string or a dollar-quoted
\* block, a block ending at the first later occurrence of its delimiter.
RECURSIVE QuotedFirst(_, _)
QuotedFirst(content, i) ==
    IF i > Len(content) THEN {}
    ELSE IF content[i] = "'"
    THEN LET j == CloseSingle(content, i + 1)
         IN (i..j) \cup QuotedFirst(content, j + 1)
    ELSE IF content[i] = "$" /\ parseDollarTag(content, i).ok
    THEN LET dp == parseDollarTag(content, i)
             j == FirstOccurrenceEnd(content, dp.tagEnd + 1,
                                     SubSeq(content, i, dp.tagEnd))
         IN (i..j) \cup QuotedFirst(content, j + 1)
    ELSE QuotedFirst(content, i + 1)

\* C31: a dollar-quoted block ends at the first later occurrence of its own
\* delimiter and at no other, also when a different delimiter directly
\* precedes that occurrence and shares a $ with it; so the semicolons that
\* end statements are those outside the blocks that end there.
C31_BlockEndsAtFirstOccurrence ==
    call.op = "splitSQLStatements" =>
        call.cuts = {c \in DOMAIN call.content :
                        /\ call.content[c] = ";"
                        /\ c \notin QuotedFirst(call.content, 1)}

\* ------------------------------------------------------------------ C32
\* The step is a login whose submitted username and password match no user:
\* the username is unknown, or it exists with another password.
FailedLoginStep ==
    /\ call'.n = call.n + 1
    /\ call'.op = "login"
    /\ ~\E u \in users : /\ u.username = call'.username
                         /\ CompareHashAndPassword(u.password, call'.password)

\* The login response that depends on the submitted text alone.
InvalidLoginResponse(n, username, password) ==
    [op |-> "login", n |-> n, username |-> username, password |-> password,
     status |-> StatusOK, location |-> "", page |-> "login",
     error |-> "Invalid username or password"]

\* C32: a login with an unknown username and a login with an existing
\* username and a wrong password get the same response for the same submitted
\* text (200, the login form, "Invalid username or password"), and neither
\* stores a user_id in the session.
C32_LoginResponseIndistinguishable ==
    [][ FailedLoginStep =>
            /\ call' = InvalidLoginResponse(call'.n, call'.username, call'.password)
            /\ jar' = jar
            /\ users' = users
      ]_vars

\* C32 witness: with alice registered and bob unknown, a login as alice with
\* a password that is not hers was answered, no session having been set.
C32_Witness ==
    /\ call.op = "login"
    /\ call.username = "alice"
    /\ call.error = "Invalid username or password"
    /\ \E u \in users : /\ u.username = "alice"
                        /\ ~CompareHashAndPassword(u.password, call.password)
    /\ ~\E u \in users : u.username = "bob"
    /\ ~isAuthenticated(jar)

\* ------------------------------------------------------------------ C33
\* The step is a call of APIRegisterHandler.
RegisterStep ==
    /\ call'.n = call.n + 1
    /\ call'.op = "register"

\* C33: APIRegisterHandler inserts a user row only when username, email and
\* password are non-empty, password equals password2 and no user has the
\* username; an inserting call adds that one row and answers 302 to /login;
\* every other call leaves the users table as it was and renders the register
\* form with 200.
C33_RegisterInsertsOnlyValid ==
    [][ RegisterStep =>
            IF users' # users
            THEN /\ call'.username # "" /\ call'.email # "" /\ call'.password # ""
                 /\ call'.password = call'.password2
                 /\ ~\E u \in users : u.username = call'.username
                 /\ \E row \in users' :
                       /\ users' = users \cup {row}
                       /\ row.username = call'.username
                       /\ row.email = call'.email
                       /\ CompareHashAndPassword(row.password, call'.password)
                 /\ call'.status = StatusFound
                 /\ call'.location = "/login"
            ELSE /\ call'.status = StatusOK
                 /\ call'.page = "register"
                 /\ call'.error # ""
      ]_vars

\* C33 witness: with alice registered, a valid registration of bob was
\* answered 302 to /login and his row, with the hash of his password, has
\* joined hers in the table.
C33_Witness ==
    /\ call.op = "register"
    /\ call.status = StatusFound /\ call.location = "/login"
    /\ call.username = "bob" /\ call.password = call.password2
    /\ Cardinality(users) = 2
    /\ [id |-> 2, username |-> "bob", email |-> call.email,
        password |-> Hash(call.password)] \in users
    /\ \E u \in users : u.username = "alice"

\* ------------------------------------------------------------------ C34
\* C34: when the statement of any row fails inside one InsertExternal call,
\* the call returns an error and the cache is exactly as before the call, the
\* rows executed before the failing one included; a call with an empty batch
\* changes nothing and returns no error.
C34_BatchRolledBack ==
    call.op = "insert" =>
        /\ call.failAt \in 1..Len(call.items) =>
               /\ call.err
               /\ external_results = call.before
        /\ call.items = <<>> =>
               /\ ~call.err
               /\ external_results = call.before

\* C34 witness: the statement of the second or a later row failed after the
\* first row, whose triple the cache did not hold, had been executed.
C34_Witness ==
    /\ call.op = "insert"
    /\ call.failAt \in 2..Len(call.items)
    /\ call.err
    /\ external_results = call.before
    /\ call.before # <<>>
    /\ ~\E i \in DOMAIN call.before :
          SameKey(call.before[i], call.query, call.lang, call.items[1].URL)

\* ------------------------------------------------------------------ C35
\* Request r found no row for its pair, called WikipediaSearch and got an
\* answer without results.
EmptyScrape(r) ==
    /\ req[r].pc \in {"get", "done"}
    /\ ~req[r].exists
    /\ "wiki" \in Range(req[r].calls)
    /\ ~req[r].scrapeErr
    /\ req[r].scraped = <<>>

\* Requests r and s search the same (query, language) pair.
SamePair(r, s) == req[r].tq = req[s].tq /\ req[r].lang = req[s].lang

\* Request r has passed loadExternalBestEffort's ExternalExists.
PastExists(r) == req[r].pc \in {"scrape", "insert", "get", "done"} /\ req[r].sawExternal

\* C35: after WikipediaSearch succeeded with zero results on a cache miss,
\* InsertExternal is not called and the cache holds no row for the pair (until
\* a later search stores some), and the next page search for the same pair
\* finds a miss again and calls WikipediaSearch again.
C35_EmptyAnswerNotCached ==
    EmptyScrape(1) =>
        /\ "insert" \notin Range(req[1].calls)
        /\ ~(SamePair(1, 2) /\ "insert" \in Range(req[2].calls)) =>
               ~ExternalExists(external_results, req[1].tq, req[1].lang, FALSE)
        /\ (SamePair(1, 2) /\ PastExists(2)) =>
               /\ ~req[2].exists
               /\ req[2].pc = "scrape" \/ "wiki" \in Range(req[2].calls)

\* C35 witness: the first search got an empty answer; the next search for the
\* same pair called WikipediaSearch again and this time returns its rows.
C35_Witness ==
    /\ EmptyScrape(1) /\ req[1].pc = "done"
    /\ SamePair(1, 2) /\ req[2].pc = "done"
    /\ req[2].calls = <<"ilike", "exists", "wiki", "insert", "get">>
    /\ Len(req[2].ext) > 0

\* ------------------------------------------------------------------ C36
\* The rows of a response with id 0, in the order of the response.
IdZeroRows(results) == SelectSeq(results, LAMBDA row : row.ID = 0)

\* C36: in the response to a page search every row with id 0 is a row the
\* cache stores under exactly the request's trimmed query and language and
\* carries the request's language, the id-0 rows being the first of the rows
\* stored under that pair, so that rows cached under another query or another
\* language never appear; every other row is a page with its own id.
C36_RowProvenance ==
    \A r \in Reqs :
        (Searched(r) /\ req[r].path = "page") =>
            /\ \A i \in DOMAIN req[r].results :
                  LET row == req[r].results[i] IN
                  IF row.ID = 0
                  THEN /\ row.Language = req[r].lang
                       /\ \E k \in DOMAIN external_results :
                             /\ external_results[k].query = req[r].tq
                             /\ external_results[k].language = req[r].lang
                             /\ external_results[k].title = row.Title
                             /\ external_results[k].url = row.URL
                             /\ external_results[k].snippet = row.Description
                  ELSE \E p \in Pages : p.id = row.ID /\ row = ToSearchResult(p)
            /\ LET zero == IdZeroRows(req[r].results)
               IN /\ Len(zero) <= Len(CachedFor(r))
                  /\ zero = SubSeq(CachedFor(r), 1, Len(zero))

\* C36 witness: the cache holds rows under another language and under another
\* query than the request's, and the response holds pages and id-0 rows.
C36_Witness ==
    \E r \in Reqs :
        /\ Searched(r) /\ req[r].path = "page"
        /\ \E i \in DOMAIN req[r].results : req[r].results[i].ID = 0
        /\ \E i \in DOMAIN req[r].results : req[r].results[i].ID # 0
        /\ \E k \in DOMAIN external_results :
              \/ external_results[k].language # req[r].lang
              \/ external_results[k].query # req[r].tq

====
